---- MODULE Spec2Model ----
(***************************************************************************)
(* The progress and credit rollup of the learning-management application:  *)
(* the relational rows (Enrollment, Lesson, LessonItemProgress,            *)
(* LessonProgress, CreditTransaction) and the requests that read and write *)
(* them: toggle_lesson_progress, course_enroll and the instructor's        *)
(* lesson edit (LessonUpdateView with LessonForm); the accounts (User.save *)
(* with the student id, sign-up, create_instructor and the admin site);    *)
(* the courses (Course.save, Course.publish and the course views); and the *)
(* two overall reports.  Each part has its own specification: Spec,        *)
(* AccountsSpec, CourseSpec, EnrollSpec, ReportSpec, LessonSpec (lesson    *)
(* creation, edit, deletion and the lesson page) and DeactivationSpec      *)
(* (progress, course deactivation and the reports together).               *)
(*                                                                         *)
(* Text values (POST parameters, reading_list, assignments) are sequences  *)
(* of one-character strings, so that parsing, lower-casing, line splitting *)
(* and stripping are computed as the code computes them.  A percentage is  *)
(* kept in hundredths of a percent (50.0 is 5000): round(x, 2) has two     *)
(* decimals.  Requests are handled one after another, except in            *)
(* ConcurrentToggleSpec, ConcurrentSignupSpec and ConcurrentEnrollSpec,    *)
(* where the ORM statements of the requests in flight interleave.          *)
(***************************************************************************)
EXTENDS Integers, Sequences, FiniteSets, TLC

VARIABLES
    users,           \* User rows by primary key: [email, username, role, is_staff, ..., student_id, groups]
    issued,          \* history: the student ids handed out so far
    courses,         \* Course rows by primary key: [credit_points, status, is_draft, published_at]
    enrollments,     \* Enrollment rows: [student, course]
    lessons,         \* Lesson rows by id: [course, reading_list, assignments, credit_points]
    prerequisites,   \* rows of Lesson.prerequisites: [from_lesson, to_lesson]
    itemProgress,    \* LessonItemProgress rows: [student, lesson, section, item_index, completed]
    lessonProgress,  \* LessonProgress rows: [student, lesson, completed]
    creditTxns,      \* CreditTransaction rows: [student, lesson, credits]
    request,         \* the request handled last
    response,        \* the response to it
    wrote,           \* history: the last request changed a progress or credit row
    prevTxns,        \* history: the CreditTransaction rows before the last request
    repeated,        \* history: the last request equals the one before it, which was answered 200
    nreq,            \* history: the number of requests handled
    inflight         \* the requests being handled concurrently, by process: [pc, ...locals]

vars == <<users, issued, courses, enrollments, lessons, prerequisites, itemProgress,
          lessonProgress, creditTxns, request, response, wrote, prevTxns, repeated, nreq,
          inflight>>

progressRows == <<itemProgress, lessonProgress, creditTxns>>

-----------------------------------------------------------------------------
(* Bounds and fixtures *)

MaxRequests == 4
MaxAccountRequests == 3   \* requests in a run of the accounts specification
MaxReportRequests == 4    \* requests in a run that ends with a report
MaxCourseRequests == 3    \* requests in a run of the courses specification

None == <<"N", "o", "n", "e", "T", "y", "p", "e">>   \* a missing POST key (Python None)

Users == {"s1", "i1"}
Courses == {"K1", "K2"}
LessonIds == {"L1", "L2"}

RoleOf(u) == IF u = "s1" THEN "STUDENT" ELSE "INSTRUCTOR"
CourseInstructor(c) == "i1"

SECTION_READING == <<"r", "e", "a", "d", "i", "n", "g">>
SECTION_ASSIGNMENT == <<"a", "s", "s", "i", "g", "n", "m", "e", "n", "t">>

\* POST values a client sends.  int() accepts surrounding white space: " 1" is 1.
TRUE_TEXT == <<"T", "r", "u", "e">>
SectionInputs == {SECTION_READING, SECTION_ASSIGNMENT}
IndexInputs == {<<"0">>, <<" ", "1">>}
CompletedInputs == {TRUE_TEXT, <<"0">>}

\* The toggle payloads: every well-formed one, and one malformed in each way
WellFormedPayloads ==
    [section : SectionInputs, index : IndexInputs, completed : CompletedInputs]
GoodPayload == [section |-> SECTION_READING, index |-> <<"0">>, completed |-> TRUE_TEXT]
MalformedPayloads ==
    { [GoodPayload EXCEPT !.section = <<"q", "u", "i", "z">>],
      [GoodPayload EXCEPT !.section = None],
      [GoodPayload EXCEPT !.index = <<"x">>],
      [GoodPayload EXCEPT !.index = None],
      [GoodPayload EXCEPT !.index = <<"-", "1">>] }

\* The toggle requests: every payload by the student on each lesson, and the good
\* payload by the instructor and on a lesson id that does not exist
ToggleRequests ==
    {<<"s1", lid, post>> : lid \in LessonIds, post \in WellFormedPayloads \cup MalformedPayloads}
      \cup {<<"i1", "L1", GoodPayload>>, <<"s1", "L9", GoodPayload>>}

\* reading_list / assignments texts an instructor submits
TextTwo == <<"a", "\n", " ", "\n", "b">>
TextOne == <<"a">>
TextNone == <<>>
LessonForms ==
    { [reading_list |-> TextTwo,  assignments |-> TextNone, credit_points |-> 10],
      [reading_list |-> TextTwo,  assignments |-> TextNone, credit_points |-> 20],
      [reading_list |-> TextOne,  assignments |-> TextNone, credit_points |-> 20],
      [reading_list |-> TextNone, assignments |-> TextNone, credit_points |-> 5],
      [reading_list |-> TextOne,  assignments |-> TextOne,  credit_points |-> 31] }

\* The lesson edits: every form by the instructor on each lesson, one by the student
LessonUpdateRequests ==
    {<<"i1", lid, form>> : lid \in LessonIds, form \in LessonForms}
      \cup {<<"s1", "L1", CHOOSE f \in LessonForms : f.credit_points = 10>>}

-----------------------------------------------------------------------------
(* Text helpers *)

IsSpace(c) == c \in {" ", "\t", "\n"}
IsDigit(c) == c \in {"0", "1", "2", "3", "4", "5", "6", "7", "8", "9"}
DigitValue(c) ==
    CASE c = "0" -> 0 [] c = "1" -> 1 [] c = "2" -> 2 [] c = "3" -> 3 [] c = "4" -> 4
      [] c = "5" -> 5 [] c = "6" -> 6 [] c = "7" -> 7 [] c = "8" -> 8 [] c = "9" -> 9

RECURSIVE LStrip(_)
LStrip(s) == IF s # <<>> /\ IsSpace(Head(s)) THEN LStrip(Tail(s)) ELSE s

RECURSIVE RStrip(_)
RStrip(s) ==
    IF s # <<>> /\ IsSpace(s[Len(s)]) THEN RStrip(SubSeq(s, 1, Len(s) - 1)) ELSE s

\* str.strip()
Strip(s) == RStrip(LStrip(s))

LowerChar(c) ==
    CASE c = "O" -> "o" [] c = "N" -> "n" [] c = "T" -> "t" [] c = "R" -> "r"
      [] c = "U" -> "u" [] c = "E" -> "e" [] c = "Y" -> "y" [] c = "S" -> "s"
      [] OTHER -> c

\* str.lower()
Lower(s) == [i \in 1..Len(s) |-> LowerChar(s[i])]

\* str(x): the text itself, and "None" for a missing key
Str(x) == IF x = None THEN <<"N", "o", "n", "e">> ELSE x

RECURSIVE SplitFrom(_, _, _)
SplitFrom(s, cur, acc) ==
    IF s = <<>> THEN (IF cur = <<>> THEN acc ELSE Append(acc, cur))
    ELSE IF Head(s) = "\n" THEN SplitFrom(Tail(s), <<>>, Append(acc, cur))
    ELSE SplitFrom(Tail(s), Append(cur, Head(s)), acc)

\* str.splitlines(): no empty last line after a final line break
SplitLines(s) == SplitFrom(s, <<>>, <<>>)

\* sum(1 for line in (text or "").splitlines() if line.strip())
NonBlankLines(text) ==
    LET ls == SplitLines(text)
    IN Cardinality({i \in 1..Len(ls) : Strip(ls[i]) # <<>>})

RECURSIVE DigitsValue(_, _)
DigitsValue(s, acc) ==
    IF s = <<>> THEN acc ELSE DigitsValue(Tail(s), acc * 10 + DigitValue(Head(s)))

\* int(index): [ok, value]; TypeError for None, ValueError for text that is no
\* optionally signed run of digits (surrounding white space is allowed)
ParseInt(x) ==
    IF x = None THEN [ok |-> FALSE, value |-> 0]
    ELSE LET t == Strip(x)
             signed == t # <<>> /\ Head(t) \in {"-", "+"}
             digits == IF signed THEN Tail(t) ELSE t
         IN IF digits = <<>> \/ \E i \in 1..Len(digits) : ~IsDigit(digits[i])
            THEN [ok |-> FALSE, value |-> 0]
            ELSE [ok |-> TRUE,
                  value |-> IF signed /\ Head(t) = "-"
                            THEN 0 - DigitsValue(digits, 0)
                            ELSE DigitsValue(digits, 0)]

\* str(desired).lower() in ("1", "true", "yes", "on")
CompletedFlag(desired) ==
    Lower(Str(desired)) \in {<<"1">>, <<"t", "r", "u", "e">>, <<"y", "e", "s">>, <<"o", "n">>}

RECURSIVE SumCredits(_)
SumCredits(rows) ==
    IF rows = {} THEN 0
    ELSE LET r == CHOOSE x \in rows : TRUE
         IN r.credits + SumCredits(rows \ {r})

\* the percentage cut off after two decimals instead of rounded
Percent_Truncated(completed, total) ==
    IF total = 0 THEN 0 ELSE (completed * 10000) \div total

\* round(completed / total * 100, 2) if total else 0.0, in hundredths of a percent.
\* No quotient of the totals reached here lies halfway between two hundredths, where
\* round() would go to the even one.
Percent(completed, total) ==
    IF total = 0 THEN 0 ELSE (2 * completed * 10000 + total) \div (2 * total)

-----------------------------------------------------------------------------
(* toggle_lesson_progress *)

\* getattr(user, "role", None) == user.__class__.Roles.STUDENT
IsStudent(u) == RoleOf(u) = "STUDENT"

\* the enrollment check left out
IsEnrolled_Unchecked(rows, u, c) == TRUE

\* Enrollment.objects.filter(student=user, course=lesson.course).exists()
IsEnrolled(rows, u, c) == \E e \in rows : e.student = u /\ e.course = c

\* the section check left out
ValidSection_Unchecked(section) == TRUE

\* section not in (SECTION_READING, SECTION_ASSIGNMENT)
ValidSection(section) == section \in {SECTION_READING, SECTION_ASSIGNMENT}

\* item_index = models.PositiveIntegerField(): the column's CHECK (item_index >= 0)
ItemIndexStorable(idx) == idx >= 0

\* LessonItemProgress.objects.get_or_create(...); ip.completed = flag; ip.save()
UpsertItem(items, u, l, section, idx, flag) ==
    LET same(r) == r.student = u /\ r.lesson = l /\ r.section = section /\ r.item_index = idx
    IN {r \in items : ~same(r)}
         \cup {[student |-> u, lesson |-> l, section |-> section,
                item_index |-> idx, completed |-> flag]}

\* LessonItemProgress.objects.filter(student, lesson, section, completed=True).count()
CompletedCount(items, u, l, section) ==
    Cardinality({r \in items : r.student = u /\ r.lesson = l
                               /\ r.section = section /\ r.completed})

\* the guard on a lesson without items left out
AllDone_NoItemsGuard(total_items, completed_items) == completed_items = total_items

\* all_done = (total_items > 0) and (completed_items == total_items)
AllDone(total_items, completed_items) ==
    (total_items > 0) /\ (completed_items = total_items)

\* lp.completed of the row LessonProgress.objects.get_or_create(student, lesson) returns
PreviouslyCompleted(lps, u, l) ==
    \E r \in lps : r.student = u /\ r.lesson = l /\ r.completed

\* lp, _ = get_or_create(...); if lp.completed != all_done: lp.completed = all_done; lp.save()
MirrorLessonProgress(lps, u, l, all_done) ==
    LET same(r) == r.student = u /\ r.lesson = l
    IN {r \in lps : ~same(r)}
         \cup {[student |-> u, lesson |-> l, completed |-> all_done]}

\* a revocation that is forgotten: the rows stay when the lesson is no longer complete
SyncCredits_NoRevoke(txns, u, l, all_done, previously_completed, credit_points) ==
    LET same(r) == r.student = u /\ r.lesson = l
    IN IF all_done
       THEN [rows |-> {r \in txns : ~same(r)}
                        \cup {[student |-> u, lesson |-> l, credits |-> credit_points]},
             awarded |-> IF \E r \in txns : same(r) THEN 0 ELSE credit_points]
       ELSE [rows |-> txns, awarded |-> 0]

\* a stale amount left as it is
SyncCredits_NoRefresh(txns, u, l, all_done, previously_completed, credit_points) ==
    LET same(r) == r.student = u /\ r.lesson = l
    IN IF all_done
       THEN IF \E r \in txns : same(r)
            THEN [rows |-> txns, awarded |-> 0]
            ELSE [rows |-> txns \cup {[student |-> u, lesson |-> l,
                                       credits |-> credit_points]},
                  awarded |-> credit_points]
       ELSE [rows |-> IF previously_completed THEN {r \in txns : ~same(r)} ELSE txns,
             awarded |-> 0]

\* an award reported by every call that finds the lesson complete
SyncCredits_AwardEachCall(txns, u, l, all_done, previously_completed, credit_points) ==
    LET same(r) == r.student = u /\ r.lesson = l
    IN IF all_done
       THEN [rows |-> {r \in txns : ~same(r)}
                        \cup {[student |-> u, lesson |-> l, credits |-> credit_points]},
             awarded |-> credit_points]
       ELSE [rows |-> IF previously_completed THEN {r \in txns : ~same(r)} ELSE txns,
             awarded |-> 0]

\* the credit synchronisation: [rows, awarded]
SyncCredits(txns, u, l, all_done, previously_completed, credit_points) ==
    LET same(r) == r.student = u /\ r.lesson = l
        mine == {r \in txns : same(r)}
    IN IF all_done
       THEN IF mine = {}
            THEN [rows |-> txns \cup {[student |-> u, lesson |-> l,
                                       credits |-> credit_points]},
                  awarded |-> credit_points]
            ELSE [rows |-> {r \in txns : ~same(r)}
                             \cup {[student |-> u, lesson |-> l,
                                    credits |-> credit_points]},
                  awarded |-> 0]
       ELSE IF previously_completed
            THEN [rows |-> {r \in txns : ~same(r)}, awarded |-> 0]
            ELSE [rows |-> txns, awarded |-> 0]

\* CreditTransaction.objects.filter(student=user).aggregate(Sum("credits")) or 0
StudentTotalCredits(txns, u) == SumCredits({r \in txns : r.student = u})

\* ... .filter(student=user, lesson__course=lesson.course).aggregate(Sum("credits")) or 0
CourseTotalCredits(txns, ls, u, c) ==
    SumCredits({r \in txns : r.student = u /\ ls[r.lesson].course = c})

\* lesson.course.lessons.count()
TotalLessons(ls, c) == Cardinality({l \in DOMAIN ls : ls[l].course = c})

\* LessonProgress.objects.filter(student, lesson__course, completed=True).count()
CompletedLessons(lps, ls, u, c) ==
    Cardinality({r \in lps : r.student = u /\ ls[r.lesson].course = c /\ r.completed})

ErrorResponse(view, status, error) ==
    [view |-> view, status |-> status, error |-> error]

\* The whole handler: the response and the three tables after it.
ToggleLessonProgress(u, lid, post) ==
    LET view == "toggle_lesson_progress"
        keep(resp) == [response |-> resp, items |-> itemProgress,
                       lps |-> lessonProgress, txns |-> creditTxns]
    IN
    IF lid \notin DOMAIN lessons THEN keep(ErrorResponse(view, 404, "Not Found"))
    ELSE IF ~IsStudent(u)
    THEN keep(ErrorResponse(view, 403, "Only students may mark progress"))
    ELSE IF ~IsEnrolled(enrollments, u, lessons[lid].course)
    THEN keep(ErrorResponse(view, 403, "Student not enrolled in course"))
    ELSE IF ~ValidSection(post.section)
    THEN keep(ErrorResponse(view, 400, "invalid section"))
    ELSE IF ~ParseInt(post.index).ok
    THEN keep(ErrorResponse(view, 400, "index must be an integer"))
    ELSE IF ~ItemIndexStorable(ParseInt(post.index).value)
    THEN keep(ErrorResponse(view, 500, "IntegrityError"))
    ELSE
    LET lesson == lessons[lid]
        idx == ParseInt(post.index).value
        completed_flag == CompletedFlag(post.completed)
        items == UpsertItem(itemProgress, u, lid, post.section, idx, completed_flag)
        readings_count == NonBlankLines(lesson.reading_list)
        assignments_count == NonBlankLines(lesson.assignments)
        completed_readings == CompletedCount(items, u, lid, SECTION_READING)
        completed_assignments == CompletedCount(items, u, lid, SECTION_ASSIGNMENT)
        total_items == readings_count + assignments_count
        completed_items == completed_readings + completed_assignments
        percent == Percent(completed_items, total_items)
        all_done == AllDone(total_items, completed_items)
        previously_completed == PreviouslyCompleted(lessonProgress, u, lid)
        lps == MirrorLessonProgress(lessonProgress, u, lid, all_done)
        sync == SyncCredits(creditTxns, u, lid, all_done, previously_completed,
                            lesson.credit_points)
        total_lessons == TotalLessons(lessons, lesson.course)
        completed_lessons == IF total_lessons # 0
                             THEN CompletedLessons(lps, lessons, u, lesson.course)
                             ELSE 0
    IN [response |->
            [view |-> view, status |-> 200,
             section |-> post.section, index |-> idx,
             inline_completed |-> completed_flag,
             lesson_completed |-> all_done,
             lesson_materials_percent |-> percent,
             course_completed_lessons |-> completed_lessons,
             course_total_lessons |-> total_lessons,
             percent_course_complete |-> Percent(completed_lessons, total_lessons),
             credits_awarded_now |-> sync.awarded,
             student_total_credits |-> StudentTotalCredits(sync.rows, u),
             course_total_credits |->
                 CourseTotalCredits(sync.rows, lessons, u, lesson.course),
             counts |-> [total |-> total_items, completed |-> completed_items,
                         readings_total |-> readings_count,
                         readings_completed |-> completed_readings,
                         assignments_total |-> assignments_count,
                         assignments_completed |-> completed_assignments]],
        items |-> items, lps |-> lps, txns |-> sync.rows]

Toggle(u, lid, post) ==
    /\ nreq < MaxRequests
    /\ \E out \in {ToggleLessonProgress(u, lid, post)} :
          /\ itemProgress' = out.items
          /\ lessonProgress' = out.lps
          /\ creditTxns' = out.txns
          /\ response' = out.response
    /\ request' = [view |-> "toggle_lesson_progress", user |-> u, lesson |-> lid,
                   post |-> post]
    /\ wrote' = (progressRows' # progressRows)
    /\ prevTxns' = creditTxns
    /\ repeated' = (request' = request /\ response.status = 200)
    /\ nreq' = nreq + 1
    /\ UNCHANGED <<users, issued, courses, enrollments, lessons, prerequisites, inflight>>

-----------------------------------------------------------------------------
(* course_enroll *)

MaxEnrolledCourses == 4

\* the limit tested with > instead of >=
EnrollRows_OffByOne(rows, u, c) ==
    IF Cardinality({e \in rows : e.student = u}) > MaxEnrolledCourses
    THEN rows
    ELSE rows \cup {[student |-> u, course |-> c]}

\* the Enrollment rows after course_enroll by a student
EnrollRows(rows, u, c) ==
    IF Cardinality({e \in rows : e.student = u}) >= MaxEnrolledCourses
    THEN rows
    ELSE rows \cup {[student |-> u, course |-> c]}

\* the level of the message course_enroll leaves for the user
EnrollMessage(rows, u, c) ==
    IF Cardinality({e \in rows : e.student = u}) >= MaxEnrolledCourses THEN "error"
    ELSE IF IsEnrolled(rows, u, c) THEN "info"
    ELSE "success"

CourseEnroll(u, c) ==
    /\ nreq < MaxRequests
    /\ IF ~IsStudent(u)
       THEN /\ response' = ErrorResponse("course_enroll", 403, "Student role required")
            /\ UNCHANGED enrollments
       ELSE /\ enrollments' = EnrollRows(enrollments, u, c)
            /\ response' = [view |-> "course_enroll", status |-> 302,
                            message |-> EnrollMessage(enrollments, u, c)]
    /\ request' = [view |-> "course_enroll", user |-> u, course |-> c]
    /\ wrote' = FALSE
    /\ prevTxns' = creditTxns
    /\ repeated' = FALSE
    /\ nreq' = nreq + 1
    /\ UNCHANGED <<users, issued, courses, lessons, prerequisites, itemProgress,
                   lessonProgress, creditTxns, inflight>>

-----------------------------------------------------------------------------
(* LessonUpdateView with LessonForm *)

\* InstructorRequiredMixin.test_func
IsInstructor(u) == RoleOf(u) = "INSTRUCTOR"

\* LessonForm.clean: the other lessons of the course plus the new value stay within 30
CourseCreditLimit == 30

LessonFormValid(ls, lid, form) ==
    LET others == {l \in DOMAIN ls : ls[l].course = ls[lid].course /\ l # lid}
        existing_sum == SumCredits({[lesson |-> l, credits |-> ls[l].credit_points]
                                      : l \in others})
    IN ~(existing_sum + form.credit_points > CourseCreditLimit)

LessonUpdate(u, lid, form) ==
    /\ nreq < MaxRequests
    /\ IF ~IsInstructor(u)
       THEN /\ response' = ErrorResponse("lesson_edit", 403, "Instructor role required")
            /\ UNCHANGED lessons
       ELSE IF CourseInstructor(lessons[lid].course) # u
       THEN /\ response' = ErrorResponse("lesson_edit", 404, "Not Found")
            /\ UNCHANGED lessons
       ELSE IF ~LessonFormValid(lessons, lid, form)
       THEN /\ response' = ErrorResponse("lesson_edit", 200, "credit_points")
            /\ UNCHANGED lessons
       ELSE /\ lessons' = [lessons EXCEPT ![lid] =
                              [course |-> @.course,
                               reading_list |-> form.reading_list,
                               assignments |-> form.assignments,
                               credit_points |-> form.credit_points]]
            /\ response' = [view |-> "lesson_edit", status |-> 302]
    /\ request' = [view |-> "lesson_edit", user |-> u, lesson |-> lid, form |-> form]
    /\ wrote' = FALSE
    /\ prevTxns' = creditTxns
    /\ repeated' = FALSE
    /\ nreq' = nreq + 1
    /\ UNCHANGED <<users, issued, courses, enrollments, prerequisites, itemProgress,
                   lessonProgress, creditTxns, inflight>>

-----------------------------------------------------------------------------
(* accounts: User.save and the student id *)

STUDENT_ID_PREFIX == <<"s", "t", "u">>
STUDENT_ID_PADDING == 4

DigitChar(d) ==
    CASE d = 0 -> "0" [] d = 1 -> "1" [] d = 2 -> "2" [] d = 3 -> "3" [] d = 4 -> "4"
      [] d = 5 -> "5" [] d = 6 -> "6" [] d = 7 -> "7" [] d = 8 -> "8" [] d = 9 -> "9"

\* the decimal digits of a natural number
RECURSIVE Decimal(_)
Decimal(n) ==
    IF n < 10 THEN <<DigitChar(n)>> ELSE Append(Decimal(n \div 10), DigitChar(n % 10))

\* f"{n:0{width}d}": padded with zeros on the left, never cut
ZeroPadded(n, width) ==
    LET d == Decimal(n) IN [i \in 1..(width - Len(d)) |-> "0"] \o d

\* f"{prefix}{next_number:0{width}d}"
StudentId(n) == STUDENT_ID_PREFIX \o ZeroPadded(n, STUDENT_ID_PADDING)

\* str.startswith
StartsWith(s, prefix) == Len(s) >= Len(prefix) /\ SubSeq(s, 1, Len(prefix)) = prefix

\* str.isdigit(): false for the empty text
IsDigitText(s) == s # <<>> /\ \A i \in 1..Len(s) : IsDigit(s[i])

\* sid[len(prefix):]
Suffix(sid) == SubSeq(sid, Len(STUDENT_ID_PREFIX) + 1, Len(sid))

\* cls.objects.filter(student_id__startswith=prefix).exclude(student_id__isnull=True)
ExistingIds(rows) ==
    {sid \in {rows[k].student_id : k \in DOMAIN rows} :
        sid # None /\ StartsWith(sid, STUDENT_ID_PREFIX)}

\* the largest numeric suffix of the stored ids, 0 without one
MaxNumber(rows) ==
    LET numbers == {DigitsValue(Suffix(sid), 0) :
                      sid \in {x \in ExistingIds(rows) : IsDigitText(Suffix(x))}}
    IN IF numbers = {} THEN 0 ELSE CHOOSE m \in numbers : \A n \in numbers : n <= m

\* while cls.objects.filter(student_id=candidate).exists(): next_number += 1
RECURSIVE FreeCandidate(_, _)
FreeCandidate(rows, next_number) ==
    IF \E k \in DOMAIN rows : rows[k].student_id = StudentId(next_number)
    THEN FreeCandidate(rows, next_number + 1)
    ELSE StudentId(next_number)

\* the first number no stored id carries, instead of one past the largest
GenerateStudentId_FirstFree(rows) == FreeCandidate(rows, 1)

\* User._generate_student_id
GenerateStudentId(rows) == FreeCandidate(rows, MaxNumber(rows) + 1)

\* what save() does to the instance before it is written, with the role left as set
UserSave_KeepRole(rows, obj) ==
    LET email == IF obj.email # <<>> THEN Lower(Strip(obj.email)) ELSE obj.email
    IN [obj EXCEPT
          !.email = email,
          !.username = IF obj.email # <<>> THEN email ELSE @,
          !.student_id = IF obj.role = "STUDENT" /\ @ \in {None, <<>>}
                         THEN GenerateStudentId(rows) ELSE @]

\* ... with the student id decided before the role is derived
UserSave_IdBeforeRole(rows, obj) ==
    LET email == IF obj.email # <<>> THEN Lower(Strip(obj.email)) ELSE obj.email
    IN [obj EXCEPT
          !.email = email,
          !.username = IF obj.email # <<>> THEN email ELSE @,
          !.role = IF obj.is_superuser \/ obj.is_staff THEN "ADMIN" ELSE @,
          !.student_id = IF obj.role = "STUDENT" /\ @ \in {None, <<>>}
                         THEN GenerateStudentId(rows) ELSE @]

\* ... with a new student id for every student saved
UserSave_Regenerate(rows, obj) ==
    LET email == IF obj.email # <<>> THEN Lower(Strip(obj.email)) ELSE obj.email
        role == IF obj.is_superuser \/ obj.is_staff THEN "ADMIN" ELSE obj.role
    IN [obj EXCEPT
          !.email = email,
          !.username = IF obj.email # <<>> THEN email ELSE @,
          !.role = role,
          !.student_id = IF role = "STUDENT" THEN GenerateStudentId(rows) ELSE @]

\* User.save up to super().save(): the instance as it is written.  rows are the
\* stored User rows the id generator reads.
UserSave(rows, obj) ==
    LET email == IF obj.email # <<>> THEN Lower(Strip(obj.email)) ELSE obj.email
        role == IF obj.is_superuser \/ obj.is_staff THEN "ADMIN" ELSE obj.role
    IN [obj EXCEPT
          !.email = email,
          !.username = IF obj.email # <<>> THEN email ELSE @,
          !.role = role,
          !.student_id = IF role = "STUDENT" /\ @ \in {None, <<>>}
                         THEN GenerateStudentId(rows) ELSE @]

\* super().save(): the row is inserted or replaced
StoreUser(rows, pk, obj) ==
    [k \in DOMAIN rows \cup {pk} |-> IF k = pk THEN obj ELSE rows[k]]

\* a User instance with the model's defaults (role STUDENT, no student id)
NewUser(email) ==
    [email |-> email, username |-> <<>>, role |-> "STUDENT", is_staff |-> FALSE,
     is_superuser |-> FALSE, is_active |-> TRUE, student_id |-> None, groups |-> {}]

\* a stored user of the given role, as sign-up and create_instructor leave it
UserRow(email, role, sid) ==
    [NewUser(email) EXCEPT !.username = email, !.role = role, !.student_id = sid,
                           !.groups = IF role = "STUDENT" THEN {"Student"} ELSE {}]

-----------------------------------------------------------------------------
(* accounts: sign-up, create_instructor, set_instructor_status and the admin site *)

\* a request that leaves the progress and credit rows alone has been answered
Answered(req, resp) ==
    /\ request' = req
    /\ response' = resp
    /\ wrote' = FALSE
    /\ prevTxns' = creditTxns
    /\ repeated' = FALSE
    /\ nreq' = nreq + 1
    /\ UNCHANGED inflight

\* the student ids handed out so far, with those the rows carry now
IssuedWith(rows) == issued \cup (ExistingIds(rows) \ {None})

\* the users before the first request: the superuser and one student
InitialUsers ==
    (1 :> [NewUser(<<"u", "1">>) EXCEPT !.username = <<"u", "1">>, !.role = "ADMIN",
                                        !.is_staff = TRUE, !.is_superuser = TRUE])
    @@ (2 :> [NewUser(<<"u", "2">>) EXCEPT !.username = <<"u", "2">>,
                                           !.student_id = StudentId(1),
                                           !.groups = {"Student"}])

\* the primary key of the next row: keys are never given twice
NewUserPk == Cardinality(DOMAIN InitialUsers) + nreq + 1

\* an address nobody has, as typed and with capitals and a leading blank
FreshEmails == {<<"u">> \o Decimal(NewUserPk), <<" ", "U">> \o Decimal(NewUserPk)}
\* the superuser's address in capitals
TakenEmail == <<"U", "1">>

\* is_admin: user.is_authenticated and user.role == User.Roles.ADMIN
IsAdmin(u) == users[u].role = "ADMIN"

\* the admin site admits active staff; the superuser holds every permission
AdminSiteUser(u) == users[u].is_active /\ users[u].is_staff /\ users[u].is_superuser

LoginRedirect(view) == ErrorResponse(view, 302, "login")

\* StudentSignupView.post with StudentSignupForm
StudentSignup(email) ==
    LET view == "signup_student"
        cleaned == Lower(Strip(email))
        taken == \E k \in DOMAIN users : Lower(users[k].email) = cleaned
        user == [NewUser(cleaned) EXCEPT !.username = cleaned, !.role = "STUDENT"]
        saved == UserSave(users, user)
    IN /\ nreq < MaxAccountRequests
       /\ IF cleaned = <<>> \/ taken
          THEN /\ UNCHANGED <<users, issued>>
               /\ Answered([view |-> view, email |-> email],
                           ErrorResponse(view, 200, "email"))
          ELSE /\ users' = StoreUser(users, NewUserPk,
                                     [saved EXCEPT !.groups = @ \cup {"Student"}])
               /\ issued' = IssuedWith(users')
               /\ Answered([view |-> view, email |-> email],
                           [view |-> view, status |-> 302, user |-> NewUserPk])
       /\ UNCHANGED <<courses, enrollments, lessons, prerequisites, progressRows>>

\* create_instructor with InstructorCreationForm
CreateInstructor(actor, email) ==
    LET view == "create_instructor"
        req == [view |-> view, user |-> actor, email |-> email]
        typed == Strip(email)
        user == [NewUser(typed) EXCEPT !.role = "INSTRUCTOR"]
        saved == UserSave(users, user)
    IN /\ nreq < MaxAccountRequests
       /\ IF ~IsAdmin(actor)
          THEN /\ UNCHANGED <<users, issued>>
               /\ Answered(req, LoginRedirect(view))
          ELSE IF \E k \in DOMAIN users : users[k].email = typed
          THEN /\ UNCHANGED <<users, issued>>
               /\ Answered(req, ErrorResponse(view, 200, "email"))
          ELSE IF \E k \in DOMAIN users : users[k].email = saved.email
          THEN /\ UNCHANGED <<users, issued>>
               /\ Answered(req, ErrorResponse(view, 500, "IntegrityError"))
          ELSE /\ users' = StoreUser(users, NewUserPk, saved)
               /\ issued' = IssuedWith(users')
               /\ Answered(req, [view |-> view, status |-> 302, user |-> NewUserPk])
       /\ UNCHANGED <<courses, enrollments, lessons, prerequisites, progressRows>>

\* set_instructor_status: save(update_fields=["is_active"]) writes that column only
SetInstructorStatus(actor, pk, action) ==
    LET view == "set_instructor_status"
        req == [view |-> view, user |-> actor, instructor |-> pk, action |-> action]
        changed == [users[pk] EXCEPT !.is_active = (action = "activate")]
        saved == UserSave(users, changed)
    IN /\ nreq < MaxAccountRequests
       /\ IF ~IsAdmin(actor)
          THEN /\ UNCHANGED users
               /\ Answered(req, LoginRedirect(view))
          ELSE IF pk \notin DOMAIN users \/ users[pk].role # "INSTRUCTOR"
          THEN /\ UNCHANGED users
               /\ Answered(req, ErrorResponse(view, 404, "Not Found"))
          ELSE IF action \notin {"activate", "deactivate"}
          THEN /\ UNCHANGED users
               /\ Answered(req, [view |-> view, status |-> 302, message |-> "error"])
          ELSE /\ users' = [users EXCEPT ![pk].is_active = saved.is_active]
               /\ Answered(req, [view |-> view, status |-> 302, message |-> "success"])
       /\ UNCHANGED <<issued, courses, enrollments, lessons, prerequisites, progressRows>>

\* groups.add(a) and groups.remove(b) on a stored user
WithGroups(obj, add, remove) == [obj EXCEPT !.groups = (@ \cup add) \ remove]

\* CustomUserAdmin.save_model on the change form: role, is_staff and is_superuser as
\* submitted, then the group kept in step with the role the saved instance has
AdminChange(actor, pk, role, is_staff, is_superuser) ==
    LET view == "admin_change"
        req == [view |-> view, user |-> actor, target |-> pk, role |-> role,
                is_staff |-> is_staff, is_superuser |-> is_superuser]
        obj == UserSave(users, [users[pk] EXCEPT !.role = role, !.is_staff = is_staff,
                                                 !.is_superuser = is_superuser])
        synced == IF obj.role = "INSTRUCTOR" THEN WithGroups(obj, {"Instructor"}, {"Student"})
                  ELSE IF obj.role = "STUDENT" THEN WithGroups(obj, {"Student"}, {"Instructor"})
                  ELSE obj
    IN /\ nreq < MaxAccountRequests
       /\ IF ~AdminSiteUser(actor)
          THEN /\ UNCHANGED <<users, issued>>
               /\ Answered(req, LoginRedirect(view))
          ELSE /\ users' = StoreUser(users, pk, synced)
               /\ issued' = IssuedWith(users')
               /\ Answered(req, [view |-> view, status |-> 302])
       /\ UNCHANGED <<courses, enrollments, lessons, prerequisites, progressRows>>

\* an admin action on a queryset of one user: the fields it sets, save(), the groups
AdminAction(view, actor, pk, changed, add, remove) ==
    /\ nreq < MaxAccountRequests
    /\ IF ~AdminSiteUser(actor)
       THEN /\ UNCHANGED <<users, issued>>
            /\ Answered([view |-> view, user |-> actor, target |-> pk], LoginRedirect(view))
       ELSE /\ users' = StoreUser(users, pk, WithGroups(UserSave(users, changed), add, remove))
            /\ issued' = IssuedWith(users')
            /\ Answered([view |-> view, user |-> actor, target |-> pk],
                        [view |-> view, status |-> 302])
    /\ UNCHANGED <<courses, enrollments, lessons, prerequisites, progressRows>>

\* role = STUDENT; is_staff stays as it is
MakeStudent(actor, pk) ==
    AdminAction("make_student", actor, pk,
                [users[pk] EXCEPT !.role = "STUDENT", !.is_staff = users[pk].is_staff],
                {"Student"}, {"Instructor"})

\* role = INSTRUCTOR; is_staff = True
MakeInstructor(actor, pk) ==
    AdminAction("make_instructor", actor, pk,
                [users[pk] EXCEPT !.role = "INSTRUCTOR", !.is_staff = TRUE],
                {"Instructor"}, {"Student"})

\* role = ADMIN; is_staff = True
MakeAdminRole(actor, pk) ==
    AdminAction("make_admin_role", actor, pk,
                [users[pk] EXCEPT !.role = "ADMIN", !.is_staff = TRUE], {}, {})

\* the admin site deletes a user: the rows that point at it go with it
\* (on_delete=CASCADE on Course.instructor and on every student key)
AdminDelete(actor, pk) ==
    LET view == "admin_delete"
        req == [view |-> view, user |-> actor, target |-> pk]
        keptCourses == {c \in DOMAIN courses : CourseInstructor(c) # pk}
        keptLessons == {l \in DOMAIN lessons : lessons[l].course \in keptCourses}
        Kept(rows) == {r \in rows : r.student # pk /\ r.lesson \in keptLessons}
    IN /\ nreq < MaxAccountRequests
       /\ IF ~AdminSiteUser(actor)
          THEN /\ UNCHANGED <<users, courses, enrollments, lessons, prerequisites, progressRows>>
               /\ Answered(req, LoginRedirect(view))
          ELSE /\ users' = [k \in DOMAIN users \ {pk} |-> users[k]]
               /\ courses' = [c \in keptCourses |-> courses[c]]
               /\ lessons' = [l \in keptLessons |-> lessons[l]]
               /\ prerequisites' = {r \in prerequisites : r.from_lesson \in keptLessons
                                                            /\ r.to_lesson \in keptLessons}
               /\ enrollments' = {e \in enrollments :
                                     e.student # pk /\ e.course \in keptCourses}
               /\ itemProgress' = Kept(itemProgress)
               /\ lessonProgress' = Kept(lessonProgress)
               /\ creditTxns' = Kept(creditTxns)
               /\ Answered(req, [view |-> view, status |-> 302])
       /\ UNCHANGED issued

\* the roles and flags the change form is submitted with
ChangeForms ==
    { <<"STUDENT", FALSE, FALSE>>, <<"STUDENT", TRUE, FALSE>>,
      <<"INSTRUCTOR", FALSE, FALSE>>, <<"ADMIN", FALSE, TRUE>> }

AccountsInit ==
    /\ users = InitialUsers
    /\ issued = {StudentId(1)}
    /\ courses = <<>>
    /\ enrollments = {}
    /\ lessons = <<>>
    /\ itemProgress = {}
    /\ lessonProgress = {}
    /\ creditTxns = {}
    /\ request = [view |-> "none"]
    /\ response = [view |-> "none", status |-> 0]
    /\ wrote = FALSE
    /\ prevTxns = {}
    /\ repeated = FALSE
    /\ nreq = 0
    /\ prerequisites = {}
    /\ inflight = <<>>

\* the users the requests come from: the superuser and the first student, while
\* their rows exist
Actors == DOMAIN users \cap DOMAIN InitialUsers

SignupRequest == \E email \in FreshEmails \cup {TakenEmail} : StudentSignup(email)

CreateInstructorRequest ==
    \E actor \in Actors, email \in FreshEmails \cup {TakenEmail} :
        CreateInstructor(actor, email)

SetInstructorStatusRequest ==
    \E actor \in Actors, pk \in DOMAIN users,
       action \in {"activate", "deactivate", "x"} :
        SetInstructorStatus(actor, pk, action)

AdminChangeRequest ==
    \E actor \in Actors, pk \in DOMAIN users, f \in ChangeForms :
        AdminChange(actor, pk, f[1], f[2], f[3])

MakeStudentRequest == \E actor \in Actors, pk \in DOMAIN users : MakeStudent(actor, pk)

MakeInstructorRequest ==
    \E actor \in Actors, pk \in DOMAIN users : MakeInstructor(actor, pk)

MakeAdminRoleRequest ==
    \E actor \in Actors, pk \in DOMAIN users : MakeAdminRole(actor, pk)

AdminDeleteRequest == \E actor \in Actors, pk \in DOMAIN users : AdminDelete(actor, pk)

AccountsNext ==
    \/ SignupRequest
    \/ CreateInstructorRequest
    \/ SetInstructorStatusRequest
    \/ AdminChangeRequest
    \/ MakeStudentRequest
    \/ MakeInstructorRequest
    \/ MakeAdminRoleRequest
    \/ AdminDeleteRequest

AccountsSpec == AccountsInit /\ [][AccountsNext]_vars

-----------------------------------------------------------------------------
(* courses: Course.save, Course.publish and the course views *)

STATUS_ACTIVE == "active"
STATUS_INACTIVE == "inactive"

\* the credit points of every course
CourseCreditPoints == 30

\* Course(): the field defaults
NewCourse ==
    [credit_points |-> CourseCreditPoints, status |-> STATUS_ACTIVE, is_draft |-> TRUE,
     published_at |-> None]

CourseFields == DOMAIN NewCourse

\* save() that writes the credit points the caller set
CourseSave_AsGiven(cs, enr, pk, obj, update_fields) ==
    LET stored == pk \in DOMAIN cs
    IN [courses |-> IF stored
                    THEN [cs EXCEPT ![pk] = [f \in CourseFields |->
                                                IF f \in update_fields THEN obj[f] ELSE @[f]]]
                    ELSE [k \in DOMAIN cs \cup {pk} |-> IF k = pk THEN obj ELSE cs[k]],
        enrollments |-> IF stored /\ cs[pk].status = STATUS_INACTIVE
                        THEN {e \in enr : e.course # pk} ELSE enr]

\* Course.save: credit_points = 30 on the instance; the enrollments of the course are
\* deleted when the row stored so far is inactive; then the row is inserted, or the
\* columns named in update_fields (all of them by default) are written.
CourseSave(cs, enr, pk, obj, update_fields) ==
    LET self == [obj EXCEPT !.credit_points = CourseCreditPoints]
        stored == pk \in DOMAIN cs
    IN [courses |-> IF stored
                    THEN [cs EXCEPT ![pk] = [f \in CourseFields |->
                                                IF f \in update_fields THEN self[f] ELSE @[f]]]
                    ELSE [k \in DOMAIN cs \cup {pk} |-> IF k = pk THEN self ELSE cs[k]],
        enrollments |-> IF stored /\ cs[pk].status = STATUS_INACTIVE
                        THEN {e \in enr : e.course # pk} ELSE enr]

\* the courses before the first request: two active ones, the student in the first
InitialCourses == (1 :> NewCourse) @@ (2 :> NewCourse)

\* the primary key of the next course: keys are never given twice
NewCoursePk == Cardinality(DOMAIN InitialCourses) + nreq + 1

\* the statuses the course form offers
StatusChoices == {STATUS_ACTIVE, STATUS_INACTIVE}
\* the credit points a caller sets on an instance before save()
CreditInputs == {CourseCreditPoints, 45}

\* Course(credit_points=..., status=...).save(): the model used directly
CourseObjectsCreate(credit_points, status) ==
    LET view == "Course.save"
        obj == [NewCourse EXCEPT !.credit_points = credit_points, !.status = status]
        out == CourseSave(courses, enrollments, NewCoursePk, obj, CourseFields)
    IN /\ nreq < MaxCourseRequests
       /\ courses' = out.courses
       /\ enrollments' = out.enrollments
       /\ Answered([view |-> view, course |-> NewCoursePk, credit_points |-> credit_points,
                    status |-> status],
                   [view |-> view, status |-> 0])
       /\ UNCHANGED <<users, issued, lessons, prerequisites, progressRows>>

\* CourseCreateView: the form has no credit_points field
CourseCreate(u, status) ==
    LET view == "course_create"
        req == [view |-> view, user |-> u, course |-> NewCoursePk, status |-> status]
        out == CourseSave(courses, enrollments, NewCoursePk,
                          [NewCourse EXCEPT !.status = status], CourseFields)
    IN /\ nreq < MaxCourseRequests
       /\ IF ~IsInstructor(u)
          THEN /\ UNCHANGED <<courses, enrollments>>
               /\ Answered(req, ErrorResponse(view, 403, "Instructor role required"))
          ELSE /\ courses' = out.courses
               /\ enrollments' = out.enrollments
               /\ Answered(req, [view |-> view, status |-> 302])
       /\ UNCHANGED <<users, issued, lessons, prerequisites, progressRows>>

\* CourseUpdateView: the instructor's own course, saved with the submitted status
CourseUpdate(u, pk, status) ==
    LET view == "course_edit"
        req == [view |-> view, user |-> u, course |-> pk, status |-> status]
        out == CourseSave(courses, enrollments, pk,
                          [courses[pk] EXCEPT !.status = status], CourseFields)
    IN /\ nreq < MaxCourseRequests
       /\ IF ~IsInstructor(u)
          THEN /\ UNCHANGED <<courses, enrollments>>
               /\ Answered(req, ErrorResponse(view, 403, "Instructor role required"))
          ELSE IF pk \notin DOMAIN courses \/ CourseInstructor(pk) # u
          THEN /\ UNCHANGED <<courses, enrollments>>
               /\ Answered(req, ErrorResponse(view, 404, "Not Found"))
          ELSE /\ courses' = out.courses
               /\ enrollments' = out.enrollments
               /\ Answered(req, [view |-> view, status |-> 302])
       /\ UNCHANGED <<users, issued, lessons, prerequisites, progressRows>>

\* Course.publish(when) on an instance read from its row, whatever credit points the
\* caller set on it: save(update_fields=["is_draft", "published_at"])
CoursePublish(pk, credit_points) ==
    LET view == "Course.publish"
        when == nreq + 1
        obj == [courses[pk] EXCEPT !.credit_points = credit_points,
                                   !.is_draft = FALSE, !.published_at = when]
        out == CourseSave(courses, enrollments, pk, obj, {"is_draft", "published_at"})
    IN /\ nreq < MaxCourseRequests
       /\ pk \in DOMAIN courses
       /\ courses' = out.courses
       /\ enrollments' = out.enrollments
       /\ Answered([view |-> view, course |-> pk, credit_points |-> credit_points],
                   [view |-> view, status |-> 0])
       /\ UNCHANGED <<users, issued, lessons, prerequisites, progressRows>>

-----------------------------------------------------------------------------
(* The overall reports: student_overall_report and instructor_report_list *)

\* the credits of the whole programme: the 120 both reports divide by
ProgrammeCredits == 120

\* round(part / whole * 100, 1) in tenths of a percent.  No quotient reached here lies
\* halfway between two tenths, where round() would go to the even one.
RoundedPercent(part, whole) == (2 * part * 1000 + whole) \div (2 * whole)

\* max(0.0, min(x, 100.0)), in tenths of a percent
Clamped(x) == IF x < 0 THEN 0 ELSE IF x > 1000 THEN 1000 ELSE x

\* the student's overall percentage without the limits
OverallProgress_Unclamped(total_credits) ==
    IF total_credits # 0 THEN RoundedPercent(total_credits, ProgrammeCredits) ELSE 0

\* student_overall_report: overall_progress
OverallProgress(total_credits) ==
    Clamped(IF total_credits # 0 THEN RoundedPercent(total_credits, ProgrammeCredits) ELSE 0)

\* instructor_report_list: progress_percent
ProgressPercent(total_credits) == Clamped(RoundedPercent(total_credits, ProgrammeCredits))

\* total_credits += credits_earned, course by course
RECURSIVE SumCourseCredits(_, _, _, _)
SumCourseCredits(cs, txns, ls, u) ==
    IF cs = {} THEN 0
    ELSE LET c == CHOOSE x \in cs : TRUE
         IN CourseTotalCredits(txns, ls, u, c) + SumCourseCredits(cs \ {c}, txns, ls, u)

\* the student's report: one entry for each enrolled course, and the totals
StudentOverallReport(u) ==
    LET view == "student_overall_report"
        enrolled_courses == {c \in DOMAIN courses : IsEnrolled(enrollments, u, c)}
        Entry(c) ==
            LET lesson_count == TotalLessons(lessons, c)
                completed_count == CompletedLessons(lessonProgress, lessons, u, c)
            IN [id |-> c,
                completed_lessons |-> completed_count,
                total_lessons |-> lesson_count,
                credits_earned |-> CourseTotalCredits(creditTxns, lessons, u, c),
                total_credits |-> courses[c].credit_points,
                progress |-> IF lesson_count # 0
                             THEN RoundedPercent(completed_count, lesson_count) ELSE 0]
        total_lessons == Cardinality({l \in DOMAIN lessons :
                                        lessons[l].course \in enrolled_courses})
        total_completed == Cardinality({r \in lessonProgress :
                                          /\ r.student = u /\ r.completed
                                          /\ lessons[r.lesson].course \in enrolled_courses})
        total_credits == SumCourseCredits(enrolled_courses, creditTxns, lessons, u)
    IN /\ nreq < MaxReportRequests
       /\ Answered([view |-> view, user |-> u],
                   [view |-> view, status |-> 200,
                    overall_progress |-> OverallProgress(total_credits),
                    total_credits |-> total_credits,
                    lessons_completed |-> total_completed,
                    total_lessons |-> total_lessons,
                    active_courses |-> Cardinality(enrolled_courses),
                    lessons_remaining |-> total_lessons - total_completed,
                    courses |-> {Entry(c) : c \in enrolled_courses}])
       /\ UNCHANGED <<users, issued, courses, enrollments, lessons, prerequisites, progressRows>>

\* total_progress_sum += progress_percent, once for each student
RECURSIVE SumProgress(_)
SumProgress(students) ==
    IF students = {} THEN 0
    ELSE LET r == CHOOSE x \in students : TRUE
         IN r.progress_percent + SumProgress(students \ {r})

\* the instructor's report: every student enrolled in a course of the instructor, with
\* the sum of all the student's credit transactions
InstructorReportList(u) ==
    LET view == "instructor_report_list"
        taught == {c \in DOMAIN courses : CourseInstructor(c) = u}
        student_ids == {e.student : e \in {x \in enrollments : x.course \in taught}}
        Student(s) ==
            LET total_credits == StudentTotalCredits(creditTxns, s)
            IN [id |-> s,
                credits |-> total_credits,
                progress_percent |-> ProgressPercent(total_credits),
                courses |-> {c \in taught : IsEnrolled(enrollments, s, c)}]
        all_students == {Student(s) : s \in student_ids}
        total_progress_sum == SumProgress(all_students)
        count == Cardinality(all_students)
    IN /\ nreq < MaxReportRequests
       /\ IF ~IsInstructor(u)
          THEN Answered([view |-> view, user |-> u],
                        ErrorResponse(view, 403, "Instructor role required"))
          ELSE Answered([view |-> view, user |-> u],
                        [view |-> view, status |-> 200,
                         all_students |-> all_students,
                         total_students |-> count,
                         courses_taught |-> Cardinality(taught),
                         avg_progress |->
                             Clamped(IF count # 0
                                     THEN (2 * total_progress_sum + count) \div (2 * count)
                                     ELSE 0)])
       /\ UNCHANGED <<users, issued, courses, enrollments, lessons, prerequisites, progressRows>>

\* The tables the reports are drawn from: five courses of the instructor, the first
\* four with one lesson of 30 credits, the fifth with a lesson edited down to 10 credits
\* and a lesson of 20; the student enrolled in up to four of them, any of the lessons
\* completed, and the transaction of the edited lesson possibly still at 30 credits.
ReportCourses == {"K1", "K2", "K3", "K4", "K5"}
ReportLessons ==
    [l \in {"L1", "L2", "L3", "L4", "L5", "L6"} |->
        [course |-> CASE l = "L1" -> "K1" [] l = "L2" -> "K2" [] l = "L3" -> "K3"
                      [] l = "L4" -> "K4" [] OTHER -> "K5",
         reading_list |-> TextOne,
         assignments |-> TextNone,
         credit_points |-> IF l = "L5" THEN 10 ELSE IF l = "L6" THEN 20 ELSE 30]]
StaleCredits == 30

ReportInit ==
    /\ users = [u \in Users |->
                  IF u = "s1" THEN UserRow(<<"s", "1">>, "STUDENT", StudentId(1))
                  ELSE UserRow(<<"i", "1">>, "INSTRUCTOR", None)]
    /\ issued = {StudentId(1)}
    /\ courses = [c \in ReportCourses |-> NewCourse]
    /\ lessons = ReportLessons
    /\ \E cs \in SUBSET ReportCourses :
          /\ Cardinality(cs) <= MaxEnrolledCourses
          /\ enrollments = {[student |-> "s1", course |-> c] : c \in cs}
    /\ \E done \in SUBSET DOMAIN ReportLessons, stale \in BOOLEAN :
          /\ stale => "L5" \in done
          /\ itemProgress = {[student |-> "s1", lesson |-> l, section |-> SECTION_READING,
                              item_index |-> 0, completed |-> TRUE] : l \in done}
          /\ lessonProgress = {[student |-> "s1", lesson |-> l, completed |-> TRUE]
                                : l \in done}
          /\ creditTxns = {[student |-> "s1", lesson |-> l,
                            credits |-> IF l = "L5" /\ stale THEN StaleCredits
                                        ELSE ReportLessons[l].credit_points] : l \in done}
    /\ request = [view |-> "none"]
    /\ response = [view |-> "none", status |-> 0]
    /\ wrote = FALSE
    /\ prevTxns = {}
    /\ repeated = FALSE
    /\ nreq = 0
    /\ prerequisites = {}
    /\ inflight = <<>>

StudentReportRequest == \E u \in Users : StudentOverallReport(u)

InstructorReportRequest == \E u \in Users : InstructorReportList(u)

ReportNext == StudentReportRequest \/ InstructorReportRequest

ReportSpec == ReportInit /\ [][ReportNext]_vars

\* course_delete: the instructor's own course goes, and with it its lessons, its
\* enrollments and the progress and credit rows of its lessons (on_delete=CASCADE)
CourseDelete(u, pk) ==
    LET view == "course_delete"
        req == [view |-> view, user |-> u, course |-> pk]
        keptLessons == {l \in DOMAIN lessons : lessons[l].course # pk}
        Kept(rows) == {r \in rows : r.lesson \in keptLessons}
    IN /\ nreq < MaxCourseRequests
       /\ IF pk \notin DOMAIN courses \/ CourseInstructor(pk) # u
          THEN /\ UNCHANGED <<courses, enrollments, lessons, prerequisites, progressRows>>
               /\ Answered(req, ErrorResponse(view, 404, "Not Found"))
          ELSE /\ courses' = [c \in DOMAIN courses \ {pk} |-> courses[c]]
               /\ enrollments' = {e \in enrollments : e.course # pk}
               /\ lessons' = [l \in keptLessons |-> lessons[l]]
               /\ prerequisites' = {r \in prerequisites : r.from_lesson \in keptLessons
                                                            /\ r.to_lesson \in keptLessons}
               /\ itemProgress' = Kept(itemProgress)
               /\ lessonProgress' = Kept(lessonProgress)
               /\ creditTxns' = Kept(creditTxns)
               /\ Answered(req, [view |-> view, status |-> 302])
       /\ UNCHANGED <<users, issued>>

CourseInit ==
    /\ users = [u \in Users |->
                  IF u = "s1" THEN UserRow(<<"s", "1">>, "STUDENT", StudentId(1))
                  ELSE UserRow(<<"i", "1">>, "INSTRUCTOR", None)]
    /\ issued = {StudentId(1)}
    /\ courses = InitialCourses
    /\ enrollments = {[student |-> "s1", course |-> 1]}
    /\ lessons = ("L1" :> [course |-> 1, reading_list |-> TextOne,
                           assignments |-> TextNone, credit_points |-> 10])
    /\ itemProgress = {}
    /\ lessonProgress = {}
    /\ creditTxns = {}
    /\ request = [view |-> "none"]
    /\ response = [view |-> "none", status |-> 0]
    /\ wrote = FALSE
    /\ prevTxns = {}
    /\ repeated = FALSE
    /\ nreq = 0
    /\ prerequisites = {}
    /\ inflight = <<>>

CourseObjectsCreateCall ==
    \E credit_points \in CreditInputs, status \in StatusChoices :
        CourseObjectsCreate(credit_points, status)

CourseCreateRequest == \E u \in Users, status \in StatusChoices : CourseCreate(u, status)

CourseUpdateRequest ==
    \E u \in Users, pk \in DOMAIN courses, status \in StatusChoices :
        CourseUpdate(u, pk, status)

CoursePublishCall ==
    \E pk \in DOMAIN courses, credit_points \in CreditInputs : CoursePublish(pk, credit_points)

CourseDeleteRequest == \E u \in Users, pk \in DOMAIN courses : CourseDelete(u, pk)

CourseEnrollRequest ==
    /\ nreq < MaxCourseRequests
    /\ \E u \in Users, pk \in DOMAIN courses : CourseEnroll(u, pk)

CourseNext ==
    \/ CourseObjectsCreateCall
    \/ CourseCreateRequest
    \/ CourseUpdateRequest
    \/ CoursePublishCall
    \/ CourseDeleteRequest
    \/ CourseEnrollRequest

CourseSpec == CourseInit /\ [][CourseNext]_vars

\* Five courses and the student enrolled in the first: enrolment up to the limit
EnrollInit ==
    /\ users = [u \in Users |->
                  IF u = "s1" THEN UserRow(<<"s", "1">>, "STUDENT", StudentId(1))
                  ELSE UserRow(<<"i", "1">>, "INSTRUCTOR", None)]
    /\ issued = {StudentId(1)}
    /\ courses = [c \in ReportCourses |-> NewCourse]
    /\ enrollments = {[student |-> "s1", course |-> "K1"]}
    /\ lessons = ReportLessons
    /\ itemProgress = {}
    /\ lessonProgress = {}
    /\ creditTxns = {}
    /\ request = [view |-> "none"]
    /\ response = [view |-> "none", status |-> 0]
    /\ wrote = FALSE
    /\ prevTxns = {}
    /\ repeated = FALSE
    /\ nreq = 0
    /\ prerequisites = {}
    /\ inflight = <<>>

EnrollNext == \E u \in Users, c \in DOMAIN courses : CourseEnroll(u, c)

EnrollSpec == EnrollInit /\ [][EnrollNext]_vars

-----------------------------------------------------------------------------
(* LessonCreateView and lesson_delete *)

MaxLessonRequests == 3    \* lesson creations and deletions in a run of the lessons specification

\* Sum("credit_points") over the course's lessons, the excluded ones left out
ExistingSum(ls, c, excluded) ==
    SumCredits({[lesson |-> l, credits |-> ls[l].credit_points]
                  : l \in {k \in DOMAIN ls : ls[k].course = c} \ excluded})

\* the limit tested on the submitted value alone
LessonFormClean_OwnValueOnly(ls, c, excluded, form) ==
    ~(form.credit_points > CourseCreditLimit)

\* LessonForm.clean: the submitted credit points fit under the course's limit
LessonFormClean(ls, c, excluded, form) ==
    ~(ExistingSum(ls, c, excluded) + form.credit_points > CourseCreditLimit)

\* the fields LessonForm reports an error on, for a new lesson of course c
LessonFormErrors(ls, c, form, pre) ==
    (IF pre \subseteq {k \in DOMAIN ls : ls[k].course = c} THEN {} ELSE {"prerequisites"})
      \cup (IF LessonFormClean(ls, c, {}, form) THEN {} ELSE {"credit_points"})

InitialLessons ==
    (1 :> [course |-> "K1", reading_list |-> TextOne, assignments |-> TextNone,
           credit_points |-> 20])
      @@ (2 :> [course |-> "K2", reading_list |-> TextOne, assignments |-> TextNone,
                credit_points |-> 20])

\* the primary key the database gives the next lesson
NewLessonPk == Cardinality(DOMAIN InitialLessons) + nreq + 1

LessonCreate(u, c, form, pre) ==
    LET view == "lesson_create"
        req == [view |-> view, user |-> u, course |-> c, form |-> form, prerequisites |-> pre]
        errors == LessonFormErrors(lessons, c, form, pre)
    IN /\ nreq < MaxLessonRequests
       /\ IF c \notin DOMAIN courses \/ CourseInstructor(c) # u
          THEN /\ UNCHANGED <<lessons, prerequisites>>
               /\ Answered(req, ErrorResponse(view, 404, "Not Found"))
          ELSE IF ~IsInstructor(u)
          THEN /\ UNCHANGED <<lessons, prerequisites>>
               /\ Answered(req, ErrorResponse(view, 403, "Forbidden"))
          ELSE IF errors # {}
          THEN /\ UNCHANGED <<lessons, prerequisites>>
               /\ Answered(req, [view |-> view, status |-> 200, errors |-> errors])
          ELSE /\ lessons' = lessons @@ (NewLessonPk :>
                                 [course |-> c,
                                  reading_list |-> form.reading_list,
                                  assignments |-> form.assignments,
                                  credit_points |-> form.credit_points])
               /\ prerequisites' = prerequisites
                                     \cup {[from_lesson |-> NewLessonPk, to_lesson |-> p]
                                             : p \in pre}
               /\ Answered(req, [view |-> view, status |-> 302])
       /\ UNCHANGED <<users, issued, courses, enrollments, progressRows>>

LessonDelete(u, lid, method) ==
    LET view == "lesson_delete"
        req == [view |-> view, user |-> u, lesson |-> lid, method |-> method]
        Kept(rows) == {r \in rows : r.lesson # lid}
    IN /\ nreq < MaxLessonRequests
       /\ IF lid \notin DOMAIN lessons \/ CourseInstructor(lessons[lid].course) # u
          THEN /\ UNCHANGED <<lessons, prerequisites, progressRows>>
               /\ Answered(req, ErrorResponse(view, 404, "Not Found"))
          ELSE IF method # "POST"
          THEN /\ UNCHANGED <<lessons, prerequisites, progressRows>>
               /\ Answered(req, ErrorResponse(view, 403, "Deletion requires POST"))
          ELSE /\ lessons' = [l \in DOMAIN lessons \ {lid} |-> lessons[l]]
               /\ prerequisites' = {r \in prerequisites :
                                       r.from_lesson # lid /\ r.to_lesson # lid}
               /\ itemProgress' = Kept(itemProgress)
               /\ lessonProgress' = Kept(lessonProgress)
               /\ creditTxns' = Kept(creditTxns)
               /\ Answered(req, [view |-> view, status |-> 302])
       /\ UNCHANGED <<users, issued, courses, enrollments>>

\* LessonDetailView.dispatch: the prerequisites of the lesson the student has not completed
MissingPrereqs(pres, lps, u, lid) ==
    {r.to_lesson : r \in {p \in pres : p.from_lesson = lid}}
      \ {r.lesson : r \in {p \in lps : p.student = u /\ p.completed}}

LessonDetail(u, lid) ==
    LET view == "lesson_detail"
        req == [view |-> view, user |-> u, lesson |-> lid]
    IN /\ nreq < MaxLessonRequests
       /\ IF lid \notin DOMAIN lessons
          THEN Answered(req, ErrorResponse(view, 404, "Not Found"))
          ELSE IF CourseInstructor(lessons[lid].course) = u
          THEN Answered(req, [view |-> view, status |-> 200])
          ELSE IF IsStudent(u) /\ IsEnrolled(enrollments, u, lessons[lid].course)
          THEN IF MissingPrereqs(prerequisites, lessonProgress, u, lid) # {}
               THEN Answered(req, [view |-> view, status |-> 302, blocked_lesson |-> lid,
                                   message |-> "warning"])
               ELSE Answered(req, [view |-> view, status |-> 200])
          ELSE Answered(req, ErrorResponse(view, 403, "Not allowed to view this lesson"))
       /\ UNCHANGED <<users, issued, courses, enrollments, lessons, prerequisites,
                      progressRows>>

\* the forms of the lessons specification: credit points at, under and over what is left
LessonSpecForms ==
    {[reading_list |-> TextOne, assignments |-> TextNone, credit_points |-> cp]
       : cp \in {10, 11, 20}}

LessonInit ==
    /\ users = [u \in Users |->
                  IF u = "s1" THEN UserRow(<<"s", "1">>, "STUDENT", StudentId(1))
                  ELSE UserRow(<<"i", "1">>, "INSTRUCTOR", None)]
    /\ issued = {StudentId(1)}
    /\ courses = [c \in Courses |-> NewCourse]
    /\ enrollments = {[student |-> "s1", course |-> "K1"]}
    /\ lessons = InitialLessons
    /\ prerequisites = {}
    /\ itemProgress = {}
    /\ lessonProgress = {}
    /\ creditTxns = {}
    /\ request = [view |-> "none"]
    /\ response = [view |-> "none", status |-> 0]
    /\ wrote = FALSE
    /\ prevTxns = {}
    /\ repeated = FALSE
    /\ nreq = 0
    /\ inflight = <<>>

LessonCreateRequest ==
    \/ \E c \in Courses, form \in LessonSpecForms, pre \in {{}, {1}} :
          LessonCreate("i1", c, form, pre)
    \/ \E form \in LessonSpecForms : LessonCreate("s1", "K1", form, {})

LessonEditRequest ==
    \E lid \in DOMAIN lessons, form \in LessonSpecForms : LessonUpdate("i1", lid, form)

LessonDeleteRequest ==
    \/ \E lid \in DOMAIN lessons : LessonDelete("i1", lid, "POST")
    \/ LessonDelete("i1", 1, "GET")
    \/ LessonDelete("s1", 1, "POST")

LessonToggleRequest == \E lid \in DOMAIN lessons : Toggle("s1", lid, GoodPayload)

LessonDetailRequest ==
    \/ \E lid \in DOMAIN lessons : LessonDetail("s1", lid)
    \/ LessonDetail("i1", 1)
    \/ LessonDetail("s1", 0)

LessonNext ==
    \/ LessonCreateRequest
    \/ LessonEditRequest
    \/ LessonDeleteRequest
    \/ LessonToggleRequest
    \/ LessonDetailRequest

LessonSpec == LessonInit /\ [][LessonNext]_vars

-----------------------------------------------------------------------------
(* toggle_lesson_progress, statement by statement, for concurrent requests *)

\* Each request is handled by its own process; the database runs in autocommit, the
\* view opens no transaction and takes no lock, so every ORM call is one atomic step
\* and the steps of two requests interleave freely.  Rows carry their primary key.

ToggleProcs == {1, 2}
ToggleStudent == "s1"
ToggleLesson == "L1"

Idle == [pc |-> "idle"]

\* the AutoField value of the next row of a table
NextId(rows) ==
    IF rows = {} THEN 1
    ELSE (CHOOSE m \in {r.id : r \in rows} : \A r \in rows : r.id <= m) + 1

\* an INSERT into a table without its unique_together constraint
InsertUnique_Unconstrained(rows, row, same) ==
    [ok |-> TRUE, rows |-> rows \cup {row}]

\* an INSERT under the table's unique_together constraint; same: the rows with the key
InsertUnique(rows, row, same) ==
    IF same # {} THEN [ok |-> FALSE, rows |-> rows]
    ELSE [ok |-> TRUE, rows |-> rows \cup {row}]

\* QuerySet.get: the row, DoesNotExist or MultipleObjectsReturned
QueryGet(same) ==
    IF same = {} THEN [found |-> FALSE, many |-> FALSE]
    ELSE IF Cardinality(same) > 1 THEN [found |-> FALSE, many |-> TRUE]
    ELSE [found |-> TRUE, many |-> FALSE, row |-> CHOOSE r \in same : TRUE]

ItemRowsOf(rows, l) ==
    {r \in rows : r.student = ToggleStudent /\ r.lesson = ToggleLesson
                  /\ r.section = l.section /\ r.item_index = l.idx}
PairRowsOf(rows) == {r \in rows : r.student = ToggleStudent /\ r.lesson = ToggleLesson}

\* the request of process p moves on
Goto(p, local) ==
    /\ inflight' = [inflight EXCEPT ![p] = local]
    /\ UNCHANGED <<users, issued, courses, enrollments, lessons, prerequisites,
                   request, response, wrote, prevTxns, repeated, nreq>>

\* the request of process p ends with an uncaught exception
Raise(l, error) == [l EXCEPT !.pc = "done", !.status = 500, !.error = error]

\* where the handler goes after the lesson-level row is mirrored (views.py 583-594)
AfterMirror(l) ==
    IF l.all_done THEN "txn_get"
    ELSE IF l.previously_completed THEN "txn_delete"
    ELSE "respond"

\* views.py 526-551: the checks, and the payload parsed
TBegin(p, post) ==
    LET l == [pc |-> "ip_get", section |-> post.section, idx |-> 0, flag |-> FALSE,
              ip |-> 0, completed_readings |-> 0, completed_assignments |-> 0,
              all_done |-> FALSE, lp |-> 0, lp_completed |-> FALSE,
              previously_completed |-> FALSE, txn |-> 0, raced |-> FALSE,
              awarded |-> 0, status |-> 0, error |-> "", total |-> 0]
        refuse(status, error) == [l EXCEPT !.pc = "done", !.status = status, !.error = error]
    IN /\ inflight[p].pc = "idle"
       /\ UNCHANGED progressRows
       /\ IF ToggleLesson \notin DOMAIN lessons THEN Goto(p, refuse(404, "Not Found"))
          ELSE IF ~IsStudent(ToggleStudent)
          THEN Goto(p, refuse(403, "Only students may mark progress"))
          ELSE IF ~IsEnrolled(enrollments, ToggleStudent, lessons[ToggleLesson].course)
          THEN Goto(p, refuse(403, "Student not enrolled in course"))
          ELSE IF ~ValidSection(post.section) THEN Goto(p, refuse(400, "invalid section"))
          ELSE IF ~ParseInt(post.index).ok
          THEN Goto(p, refuse(400, "index must be an integer"))
          ELSE Goto(p, [l EXCEPT !.idx = ParseInt(post.index).value,
                                 !.flag = CompletedFlag(post.completed)])

\* views.py 554: get_or_create, the SELECT
TItemGet(p) ==
    LET l == inflight[p]
        got == QueryGet(ItemRowsOf(itemProgress, l))
    IN /\ l.pc \in {"ip_get", "ip_refetch"}
       /\ UNCHANGED progressRows
       /\ IF got.many THEN Goto(p, Raise(l, "MultipleObjectsReturned"))
          ELSE IF got.found THEN Goto(p, [l EXCEPT !.pc = "ip_save", !.ip = got.row.id])
          ELSE IF l.pc = "ip_refetch" THEN Goto(p, Raise(l, "IntegrityError"))
          ELSE Goto(p, [l EXCEPT !.pc = "ip_insert"])

\* views.py 554: get_or_create, the INSERT; a constraint violation leads to a second SELECT
TItemInsert(p) ==
    LET l == inflight[p]
        row == [id |-> NextId(itemProgress), student |-> ToggleStudent,
                lesson |-> ToggleLesson, section |-> l.section, item_index |-> l.idx,
                completed |-> FALSE]
        out == InsertUnique(itemProgress, row, ItemRowsOf(itemProgress, l))
    IN /\ l.pc = "ip_insert"
       /\ UNCHANGED <<lessonProgress, creditTxns>>
       /\ IF ~ItemIndexStorable(l.idx)
          THEN /\ UNCHANGED itemProgress
               /\ Goto(p, Raise(l, "IntegrityError"))
          ELSE /\ itemProgress' = out.rows
               /\ IF out.ok THEN Goto(p, [l EXCEPT !.pc = "ip_save", !.ip = row.id])
                  ELSE Goto(p, [l EXCEPT !.pc = "ip_refetch", !.raced = TRUE])

\* views.py 557-558: ip.completed = completed_flag; ip.save()
TItemSave(p) ==
    LET l == inflight[p]
    IN /\ l.pc = "ip_save"
       /\ itemProgress' = {IF r.id = l.ip THEN [r EXCEPT !.completed = l.flag] ELSE r
                             : r \in itemProgress}
       /\ UNCHANGED <<lessonProgress, creditTxns>>
       /\ Goto(p, [l EXCEPT !.pc = "count_readings"])

\* views.py 564-566
TCountReadings(p) ==
    LET l == inflight[p]
    IN /\ l.pc = "count_readings"
       /\ UNCHANGED progressRows
       /\ Goto(p, [l EXCEPT !.pc = "count_assignments",
                            !.completed_readings =
                                CompletedCount(itemProgress, ToggleStudent, ToggleLesson,
                                               SECTION_READING)])

\* views.py 567-574
TCountAssignments(p) ==
    LET l == inflight[p]
        completed_assignments ==
            CompletedCount(itemProgress, ToggleStudent, ToggleLesson, SECTION_ASSIGNMENT)
        total_items == NonBlankLines(lessons[ToggleLesson].reading_list)
                         + NonBlankLines(lessons[ToggleLesson].assignments)
    IN /\ l.pc = "count_assignments"
       /\ UNCHANGED progressRows
       /\ Goto(p, [l EXCEPT !.pc = "lp_get",
                            !.completed_assignments = completed_assignments,
                            !.total = total_items,
                            !.all_done = AllDone(total_items,
                                                 l.completed_readings + completed_assignments)])

\* the handler holds the LessonProgress row: previously_completed = lp.completed (578-579)
HoldsLessonProgress(l, row) ==
    LET held == [l EXCEPT !.lp = row.id, !.lp_completed = row.completed,
                          !.previously_completed = row.completed]
    IN [held EXCEPT !.pc = IF row.completed # l.all_done THEN "lp_save"
                           ELSE AfterMirror(held)]

\* views.py 577: get_or_create, the SELECT
TLessonProgressGet(p) ==
    LET l == inflight[p]
        got == QueryGet(PairRowsOf(lessonProgress))
    IN /\ l.pc \in {"lp_get", "lp_refetch"}
       /\ UNCHANGED progressRows
       /\ IF got.many THEN Goto(p, Raise(l, "MultipleObjectsReturned"))
          ELSE IF got.found THEN Goto(p, HoldsLessonProgress(l, got.row))
          ELSE IF l.pc = "lp_refetch" THEN Goto(p, Raise(l, "IntegrityError"))
          ELSE Goto(p, [l EXCEPT !.pc = "lp_insert"])

\* views.py 577: get_or_create, the INSERT
TLessonProgressInsert(p) ==
    LET l == inflight[p]
        row == [id |-> NextId(lessonProgress), student |-> ToggleStudent,
                lesson |-> ToggleLesson, completed |-> FALSE]
        out == InsertUnique(lessonProgress, row, PairRowsOf(lessonProgress))
    IN /\ l.pc = "lp_insert"
       /\ lessonProgress' = out.rows
       /\ UNCHANGED <<itemProgress, creditTxns>>
       /\ IF out.ok THEN Goto(p, HoldsLessonProgress(l, row))
          ELSE Goto(p, [l EXCEPT !.pc = "lp_refetch", !.raced = TRUE])

\* views.py 580-581: lp.completed = all_done; lp.save(update_fields=[...])
TLessonProgressSave(p) ==
    LET l == inflight[p]
    IN /\ l.pc = "lp_save"
       /\ UNCHANGED <<itemProgress, creditTxns>>
       /\ IF \E r \in lessonProgress : r.id = l.lp
          THEN /\ lessonProgress' = {IF r.id = l.lp THEN [r EXCEPT !.completed = l.all_done]
                                        ELSE r : r \in lessonProgress}
               /\ Goto(p, [l EXCEPT !.pc = AfterMirror(l), !.lp_completed = l.all_done])
          ELSE /\ UNCHANGED lessonProgress
               /\ Goto(p, Raise(l, "DatabaseError"))

\* the handler holds the CreditTransaction row it did not create (590-592)
HoldsTxn(l, row) ==
    [l EXCEPT !.txn = row.id,
              !.pc = IF row.credits # lessons[ToggleLesson].credit_points THEN "txn_save"
                     ELSE "respond"]

\* views.py 585: get_or_create, the SELECT
TTxnGet(p) ==
    LET l == inflight[p]
        got == QueryGet(PairRowsOf(creditTxns))
    IN /\ l.pc \in {"txn_get", "txn_refetch"}
       /\ UNCHANGED progressRows
       /\ IF got.many THEN Goto(p, Raise(l, "MultipleObjectsReturned"))
          ELSE IF got.found THEN Goto(p, HoldsTxn(l, got.row))
          ELSE IF l.pc = "txn_refetch" THEN Goto(p, Raise(l, "IntegrityError"))
          ELSE Goto(p, [l EXCEPT !.pc = "txn_insert"])

\* views.py 585-589: get_or_create, the INSERT with defaults={"credits": ...}
TTxnInsert(p) ==
    LET l == inflight[p]
        row == [id |-> NextId(creditTxns), student |-> ToggleStudent,
                lesson |-> ToggleLesson, credits |-> lessons[ToggleLesson].credit_points]
        out == InsertUnique(creditTxns, row, PairRowsOf(creditTxns))
    IN /\ l.pc = "txn_insert"
       /\ creditTxns' = out.rows
       /\ UNCHANGED <<itemProgress, lessonProgress>>
       /\ IF out.ok
          THEN Goto(p, [l EXCEPT !.pc = "respond", !.txn = row.id, !.awarded = row.credits])
          ELSE Goto(p, [l EXCEPT !.pc = "txn_refetch", !.raced = TRUE])

\* views.py 591-592: txn.credits = lesson.credit_points; txn.save(update_fields=["credits"])
TTxnSave(p) ==
    LET l == inflight[p]
    IN /\ l.pc = "txn_save"
       /\ UNCHANGED <<itemProgress, lessonProgress>>
       /\ IF \E r \in creditTxns : r.id = l.txn
          THEN /\ creditTxns' = {IF r.id = l.txn
                                 THEN [r EXCEPT !.credits = lessons[ToggleLesson].credit_points]
                                 ELSE r : r \in creditTxns}
               /\ Goto(p, [l EXCEPT !.pc = "respond"])
          ELSE /\ UNCHANGED creditTxns
               /\ Goto(p, Raise(l, "DatabaseError"))

\* views.py 594: CreditTransaction.objects.filter(student, lesson).delete()
TTxnDelete(p) ==
    LET l == inflight[p]
    IN /\ l.pc = "txn_delete"
       /\ creditTxns' = creditTxns \ PairRowsOf(creditTxns)
       /\ UNCHANGED <<itemProgress, lessonProgress>>
       /\ Goto(p, [l EXCEPT !.pc = "respond"])

\* views.py 596-624: the totals are read and the response is sent
TRespond(p) ==
    LET l == inflight[p]
    IN /\ l.pc = "respond"
       /\ UNCHANGED progressRows
       /\ Goto(p, [l EXCEPT !.pc = "done", !.status = 200])

\* the payloads of the concurrent requests: each reading on and off, and one refused
ConcurrentPayloads ==
    [section : {SECTION_READING}, index : IndexInputs, completed : CompletedInputs]
      \cup {[GoodPayload EXCEPT !.section = None]}

\* the rows the student's earlier toggles have left: none; every item done and the
\* credits awarded; the same after the instructor has changed the lesson's credit points
PriorProgress ==
    LET item(i, idx) == [id |-> i, student |-> ToggleStudent, lesson |-> ToggleLesson,
                         section |-> SECTION_READING, item_index |-> idx, completed |-> TRUE]
        done(credits) ==
            [items |-> {item(1, 0), item(2, 1)},
             lps |-> {[id |-> 1, student |-> ToggleStudent, lesson |-> ToggleLesson,
                       completed |-> TRUE]},
             txns |-> {[id |-> 1, student |-> ToggleStudent, lesson |-> ToggleLesson,
                        credits |-> credits]}]
    IN {[items |-> {}, lps |-> {}, txns |-> {}], done(10), done(20)}

ConcurrentToggleInit ==
    /\ users = [u \in Users |->
                  IF u = "s1" THEN UserRow(<<"s", "1">>, "STUDENT", StudentId(1))
                  ELSE UserRow(<<"i", "1">>, "INSTRUCTOR", None)]
    /\ issued = {StudentId(1)}
    /\ courses = [c \in Courses |-> NewCourse]
    /\ enrollments = {[student |-> "s1", course |-> "K1"]}
    /\ lessons = [l \in {ToggleLesson} |->
                    [course |-> "K1", reading_list |-> TextTwo, assignments |-> TextNone,
                     credit_points |-> 10]]
    /\ prerequisites = {}
    /\ \E prior \in PriorProgress :
          /\ itemProgress = prior.items
          /\ lessonProgress = prior.lps
          /\ creditTxns = prior.txns
    /\ request = [view |-> "none"]
    /\ response = [view |-> "none", status |-> 0]
    /\ wrote = FALSE
    /\ prevTxns = {}
    /\ repeated = FALSE
    /\ nreq = 0
    /\ inflight = [p \in ToggleProcs |-> Idle]

ConcurrentToggleNext ==
    \E p \in ToggleProcs :
       \/ \E post \in ConcurrentPayloads : TBegin(p, post)
       \/ TItemGet(p)
       \/ TItemInsert(p)
       \/ TItemSave(p)
       \/ TCountReadings(p)
       \/ TCountAssignments(p)
       \/ TLessonProgressGet(p)
       \/ TLessonProgressInsert(p)
       \/ TLessonProgressSave(p)
       \/ TTxnGet(p)
       \/ TTxnInsert(p)
       \/ TTxnSave(p)
       \/ TTxnDelete(p)
       \/ TRespond(p)

ConcurrentToggleSpec == ConcurrentToggleInit /\ [][ConcurrentToggleNext]_vars

-----------------------------------------------------------------------------
(* StudentSignupView.post, statement by statement, for concurrent sign-ups *)

SignupProcs == {1, 2, 3}

\* the address process p signs up with, as typed and with a capital and a leading
\* blank, and the address of the superuser
SignupEmails(p) == {<<"n">> \o Decimal(p), <<" ", "N">> \o Decimal(p), TakenEmail}

\* the sign-up of process p moves on
SignupGoto(p, local) ==
    /\ inflight' = [inflight EXCEPT ![p] = local]
    /\ UNCHANGED <<courses, enrollments, lessons, prerequisites, progressRows,
                   request, response, wrote, prevTxns, repeated, nreq>>

\* the row breaks a unique constraint of the user table: email, username, student_id
UserClash(rows, obj) ==
    \E k \in DOMAIN rows :
       \/ rows[k].email = obj.email
       \/ rows[k].username = obj.username
       \/ obj.student_id # None /\ rows[k].student_id = obj.student_id

\* accounts/views.py 38-40 with StudentSignupForm.clean_email: form.is_valid()
SBegin(p, email) ==
    LET cleaned == Lower(Strip(email))
        taken == \E k \in DOMAIN users : Lower(users[k].email) = cleaned
        l == [pc |-> "scan", email |-> cleaned, next_number |-> 0, candidate |-> None,
              user |-> 0, status |-> 0, error |-> ""]
    IN /\ inflight[p].pc = "idle"
       /\ UNCHANGED <<users, issued>>
       /\ IF cleaned = <<>> \/ taken
          THEN SignupGoto(p, [l EXCEPT !.pc = "done", !.status = 200, !.error = "email"])
          ELSE SignupGoto(p, l)

\* accounts/models.py 51-64: the stored ids are read, next_number = max_number + 1
SScan(p) ==
    LET l == inflight[p]
    IN /\ l.pc = "scan"
       /\ UNCHANGED <<users, issued>>
       /\ SignupGoto(p, [l EXCEPT !.pc = "probe", !.next_number = MaxNumber(users) + 1])

\* accounts/models.py 66-68: one test of the loop, cls.objects.filter(...).exists()
SProbe(p) ==
    LET l == inflight[p]
    IN /\ l.pc = "probe"
       /\ UNCHANGED <<users, issued>>
       /\ IF \E k \in DOMAIN users : users[k].student_id = StudentId(l.next_number)
          THEN SignupGoto(p, [l EXCEPT !.next_number = @ + 1])
          ELSE SignupGoto(p, [l EXCEPT !.pc = "insert",
                                       !.candidate = StudentId(l.next_number)])

\* accounts/models.py 44: super().save(), the INSERT under the unique constraints
SInsert(p) ==
    LET l == inflight[p]
        user == [NewUser(l.email) EXCEPT !.username = l.email, !.role = "STUDENT",
                                         !.student_id = l.candidate]
        saved == UserSave(users, user)
        pk == (CHOOSE m \in DOMAIN users : \A k \in DOMAIN users : k <= m) + 1
    IN /\ l.pc = "insert"
       /\ IF UserClash(users, saved)
          THEN /\ UNCHANGED <<users, issued>>
               /\ SignupGoto(p, [l EXCEPT !.pc = "done", !.status = 500,
                                          !.error = "IntegrityError"])
          ELSE /\ users' = StoreUser(users, pk, saved)
               /\ issued' = IssuedWith(users')
               /\ SignupGoto(p, [l EXCEPT !.pc = "group", !.user = pk])

\* accounts/views.py 42-50: the Student group is added and the browser is redirected
SGroup(p) ==
    LET l == inflight[p]
    IN /\ l.pc = "group"
       /\ users' = [users EXCEPT ![l.user].groups = @ \cup {"Student"}]
       /\ UNCHANGED issued
       /\ SignupGoto(p, [l EXCEPT !.pc = "done", !.status = 302])

ConcurrentSignupInit ==
    /\ users = InitialUsers
    /\ issued = {StudentId(1)}
    /\ courses = <<>>
    /\ enrollments = {}
    /\ lessons = <<>>
    /\ prerequisites = {}
    /\ itemProgress = {}
    /\ lessonProgress = {}
    /\ creditTxns = {}
    /\ request = [view |-> "none"]
    /\ response = [view |-> "none", status |-> 0]
    /\ wrote = FALSE
    /\ prevTxns = {}
    /\ repeated = FALSE
    /\ nreq = 0
    /\ inflight = [p \in SignupProcs |-> Idle]

ConcurrentSignupNext ==
    \E p \in SignupProcs :
       \/ \E email \in SignupEmails(p) : SBegin(p, email)
       \/ SScan(p)
       \/ SProbe(p)
       \/ SInsert(p)
       \/ SGroup(p)

ConcurrentSignupSpec == ConcurrentSignupInit /\ [][ConcurrentSignupNext]_vars

-----------------------------------------------------------------------------
(* course_enroll, statement by statement, for concurrent requests *)

MaxEnrollRuns == 4        \* course_enroll requests begun in a run of the concurrent specification

EnrollProcs == {1, 2}

\* the request of process p moves on
EnrollGoto(p, local) ==
    /\ inflight' = [inflight EXCEPT ![p] = local]
    /\ UNCHANGED <<users, issued, courses, lessons, prerequisites, progressRows,
                   request, response, wrote, prevTxns, repeated>>

\* views.py 113-123: the course is fetched and the role is tested
EBegin(p, u, c) ==
    LET l == [pc |-> "count", user |-> u, course |-> c, current_count |-> 0,
              status |-> 0, message |-> ""]
    IN /\ inflight[p].pc \in {"idle", "done"}
       /\ nreq < MaxEnrollRuns
       /\ nreq' = nreq + 1
       /\ UNCHANGED enrollments
       /\ IF c \notin DOMAIN courses
          THEN EnrollGoto(p, [l EXCEPT !.pc = "done", !.status = 404])
          ELSE IF ~IsStudent(u)
          THEN EnrollGoto(p, [l EXCEPT !.pc = "done", !.status = 403])
          ELSE EnrollGoto(p, l)

\* views.py 125-127: current_count = Enrollment.objects.filter(student=user).count()
ECount(p) ==
    LET l == inflight[p]
        current_count == Cardinality({e \in enrollments : e.student = l.user})
    IN /\ l.pc = "count"
       /\ UNCHANGED <<enrollments, nreq>>
       /\ IF current_count >= MaxEnrolledCourses
          THEN EnrollGoto(p, [l EXCEPT !.pc = "done", !.status = 302, !.message = "error",
                                       !.current_count = current_count])
          ELSE EnrollGoto(p, [l EXCEPT !.pc = "get", !.current_count = current_count])

\* views.py 129: get_or_create, the SELECT
EGet(p) ==
    LET l == inflight[p]
    IN /\ l.pc \in {"get", "refetch"}
       /\ UNCHANGED <<enrollments, nreq>>
       /\ IF IsEnrolled(enrollments, l.user, l.course)
          THEN EnrollGoto(p, [l EXCEPT !.pc = "done", !.status = 302, !.message = "info"])
          ELSE IF l.pc = "refetch"
          THEN EnrollGoto(p, [l EXCEPT !.pc = "done", !.status = 500])
          ELSE EnrollGoto(p, [l EXCEPT !.pc = "insert"])

\* views.py 129-131: get_or_create, the INSERT under unique_together (student, course)
EInsert(p) ==
    LET l == inflight[p]
        row == [student |-> l.user, course |-> l.course]
        out == InsertUnique(enrollments, row, {e \in enrollments : e = row})
    IN /\ l.pc = "insert"
       /\ enrollments' = out.rows
       /\ UNCHANGED nreq
       /\ IF out.ok
          THEN EnrollGoto(p, [l EXCEPT !.pc = "done", !.status = 302, !.message = "success"])
          ELSE EnrollGoto(p, [l EXCEPT !.pc = "refetch"])

ConcurrentEnrollInit ==
    /\ users = [u \in Users |->
                  IF u = "s1" THEN UserRow(<<"s", "1">>, "STUDENT", StudentId(1))
                  ELSE UserRow(<<"i", "1">>, "INSTRUCTOR", None)]
    /\ issued = {StudentId(1)}
    /\ courses = [c \in ReportCourses |-> NewCourse]
    /\ enrollments = {[student |-> "s1", course |-> "K1"]}
    /\ lessons = ReportLessons
    /\ prerequisites = {}
    /\ itemProgress = {}
    /\ lessonProgress = {}
    /\ creditTxns = {}
    /\ request = [view |-> "none"]
    /\ response = [view |-> "none", status |-> 0]
    /\ wrote = FALSE
    /\ prevTxns = {}
    /\ repeated = FALSE
    /\ nreq = 0
    /\ inflight = [p \in EnrollProcs |-> Idle]

ConcurrentEnrollNext ==
    \E p \in EnrollProcs :
       \/ \E c \in ReportCourses : EBegin(p, "s1", c)
       \/ EBegin(p, "i1", "K1")
       \/ EBegin(p, "s1", "K9")
       \/ ECount(p)
       \/ EGet(p)
       \/ EInsert(p)

ConcurrentEnrollSpec == ConcurrentEnrollInit /\ [][ConcurrentEnrollNext]_vars

-----------------------------------------------------------------------------
(* Progress, deactivation and the reports together *)

\* The student enrolled in both courses of the instructor, nothing completed yet
DeactivationInit ==
    /\ users = [u \in Users |->
                  IF u = "s1" THEN UserRow(<<"s", "1">>, "STUDENT", StudentId(1))
                  ELSE UserRow(<<"i", "1">>, "INSTRUCTOR", None)]
    /\ issued = {StudentId(1)}
    /\ courses = InitialCourses
    /\ enrollments = {[student |-> "s1", course |-> c] : c \in DOMAIN InitialCourses}
    /\ lessons = ("L1" :> [course |-> 1, reading_list |-> TextOne,
                           assignments |-> TextNone, credit_points |-> 10])
    /\ prerequisites = {}
    /\ itemProgress = {}
    /\ lessonProgress = {}
    /\ creditTxns = {}
    /\ request = [view |-> "none"]
    /\ response = [view |-> "none", status |-> 0]
    /\ wrote = FALSE
    /\ prevTxns = {}
    /\ repeated = FALSE
    /\ nreq = 0
    /\ inflight = <<>>

DeactivationToggleRequest ==
    \E post \in {GoodPayload, [GoodPayload EXCEPT !.completed = <<"0">>]} :
        Toggle("s1", "L1", post)

DeactivationUpdateRequest ==
    \E pk \in DOMAIN courses, status \in StatusChoices : CourseUpdate("i1", pk, status)

DeactivationEnrollRequest == \E c \in DOMAIN courses : CourseEnroll("s1", c)

DeactivationReportRequest ==
    \/ StudentOverallReport("s1")
    \/ \E u \in Users : InstructorReportList(u)

DeactivationNext ==
    \/ DeactivationToggleRequest
    \/ DeactivationUpdateRequest
    \/ DeactivationEnrollRequest
    \/ DeactivationReportRequest

DeactivationSpec == DeactivationInit /\ [][DeactivationNext]_vars

-----------------------------------------------------------------------------
(* The specification *)

Init ==
    /\ users = [u \in Users |->
                  IF u = "s1" THEN UserRow(<<"s", "1">>, "STUDENT", StudentId(1))
                  ELSE UserRow(<<"i", "1">>, "INSTRUCTOR", None)]
    /\ issued = {StudentId(1)}
    /\ courses = [c \in Courses |-> NewCourse]
    /\ enrollments = {[student |-> "s1", course |-> "K1"]}
    /\ lessons = [l \in LessonIds |->
                    IF l = "L1"
                    THEN [course |-> "K1", reading_list |-> TextTwo,
                          assignments |-> TextNone, credit_points |-> 10]
                    ELSE [course |-> "K2", reading_list |-> TextTwo,
                          assignments |-> TextOne, credit_points |-> 20]]
    /\ itemProgress = {}
    /\ lessonProgress = {}
    /\ creditTxns = {}
    /\ request = [view |-> "none"]
    /\ response = [view |-> "none", status |-> 0]
    /\ wrote = FALSE
    /\ prevTxns = {}
    /\ repeated = FALSE
    /\ nreq = 0
    /\ prerequisites = {}
    /\ inflight = <<>>

ToggleRequest == \E r \in ToggleRequests : Toggle(r[1], r[2], r[3])

EnrollRequest == \E u \in Users, c \in Courses : CourseEnroll(u, c)

LessonUpdateRequest == \E r \in LessonUpdateRequests : LessonUpdate(r[1], r[2], r[3])

Next == ToggleRequest \/ EnrollRequest \/ LessonUpdateRequest

Spec == Init /\ [][Next]_vars

-----------------------------------------------------------------------------
(* What the properties speak of, read off the stored rows *)

TxnRowsIn(txns, s, l) == {t \in txns : t.student = s /\ t.lesson = l}
TxnRows(s, l) == TxnRowsIn(creditTxns, s, l)
TxnExists(s, l) == TxnRows(s, l) # {}
LessonMarkedCompleted(s, l) ==
    \E r \in lessonProgress : r.student = s /\ r.lesson = l /\ r.completed

\* the number of addressable items of a section: its non-blank lines
SectionItems(l, section) ==
    IF section = SECTION_READING THEN NonBlankLines(lessons[l].reading_list)
    ELSE NonBlankLines(lessons[l].assignments)
TotalItems(l) == SectionItems(l, SECTION_READING) + SectionItems(l, SECTION_ASSIGNMENT)

ItemCompletedIn(items, s, l, section, i) ==
    \E r \in items : /\ r.student = s /\ r.lesson = l /\ r.section = section
                     /\ r.item_index = i /\ r.completed
EveryItemCompletedIn(items, s, l) ==
    \A section \in {SECTION_READING, SECTION_ASSIGNMENT} :
        \A i \in 0..(SectionItems(l, section) - 1) :
            ItemCompletedIn(items, s, l, section, i)
EveryItemCompleted(s, l) == EveryItemCompletedIn(itemProgress, s, l)

\* every stored item row of (s, l) addresses a line the lesson has
RowsInRange(s, l) ==
    \A r \in itemProgress :
        (r.student = s /\ r.lesson = l) => r.item_index < SectionItems(l, r.section)
CompletedRows(s, l) ==
    {r \in itemProgress : r.student = s /\ r.lesson = l /\ r.completed}

\* the last request was a toggle, and it was answered 200
Toggled == request.view = "toggle_lesson_progress" /\ response.status = 200
ToggledOn == Toggled /\ request.post.completed = TRUE_TEXT

-----------------------------------------------------------------------------
(* C1: for every student and lesson, a CreditTransaction row exists if and *)
(* only if a LessonProgress row of the pair has completed = true.          *)
C1_CreditIffLessonCompleted ==
    \A s \in Users, l \in LessonIds : TxnExists(s, l) <=> LessonMarkedCompleted(s, l)

\* a toggle has just revoked the credit of a lesson that was complete
C1_Witness ==
    /\ Toggled
    /\ \E t \in prevTxns : t.student = request.user /\ t.lesson = request.lesson
    /\ ~TxnExists(request.user, request.lesson)
    /\ ~LessonMarkedCompleted(request.user, request.lesson)

(* C2: after a toggle, LessonProgress.completed of a lesson with items is  *)
(* true if and only if every addressable item of the lesson has a          *)
(* LessonItemProgress row with completed = true.                           *)
C2_CompletedIffEveryItem ==
    (Toggled /\ TotalItems(request.lesson) >= 1)
        => (LessonMarkedCompleted(request.user, request.lesson)
              <=> EveryItemCompleted(request.user, request.lesson))

(* C3: the same toggle-on request twice in a row: the second call changes  *)
(* no row, reports the same lesson_completed and credit totals, and awards *)
(* nothing.                                                                *)
C3_ToggleOnIdempotent ==
    [][(/\ request.view = "toggle_lesson_progress"
        /\ request' = request
        /\ request.post.completed = TRUE_TEXT
        /\ response.status = 200
        /\ response'.status = 200)
       => (/\ progressRows' = progressRows
           /\ response'.lesson_completed = response.lesson_completed
           /\ response'.student_total_credits = response.student_total_credits
           /\ response'.course_total_credits = response.course_total_credits
           /\ response'.credits_awarded_now = 0)]_vars

\* the second of two equal toggle-on requests, on a lesson the first completed
C3_Witness ==
    /\ ToggledOn
    /\ repeated
    /\ response.lesson_completed
    /\ TxnExists(request.user, request.lesson)

(* C4: when every item of a lesson is complete and its CreditTransaction   *)
(* exists, toggling one of its items off deletes the transaction; toggling *)
(* that item on again creates exactly one transaction, reports             *)
(* credits_awarded_now = credit_points, and the student's total is the one *)
(* before the revocation with this lesson counted once.                    *)
C4_RevokeAndReissue ==
    [][LET s == request'.user
           l == request'.lesson
           inRange == response'.index < SectionItems(l, response'.section)
           otherCredits == SumCredits({t \in prevTxns : t.student = s /\ t.lesson # l})
       IN (request'.view = "toggle_lesson_progress" /\ response'.status = 200 /\ inRange)
          => /\ (/\ request'.post.completed # TRUE_TEXT
                 /\ TotalItems(l) >= 1
                 /\ EveryItemCompleted(s, l)
                 /\ TxnExists(s, l))
                => (TxnRowsIn(creditTxns', s, l) = {})
             /\ (/\ Toggled
                 /\ request.post.completed # TRUE_TEXT
                 /\ request' = [request EXCEPT !.post.completed = TRUE_TEXT]
                 /\ \E t \in prevTxns : t.student = s /\ t.lesson = l
                 /\ ~TxnExists(s, l)
                 /\ EveryItemCompletedIn(itemProgress', s, l))
                => /\ Cardinality(TxnRowsIn(creditTxns', s, l)) = 1
                   /\ response'.credits_awarded_now = lessons[l].credit_points
                   /\ response'.student_total_credits
                        = otherCredits + lessons[l].credit_points]_vars

(* C5: after a toggle on a lesson whose stored item rows all address lines *)
(* the lesson has, lesson_completed is true exactly when every one of its  *)
(* n >= 1 items has a completed row (false while one is missing, true with *)
(* the last); a lesson with no items never reports lesson_completed.       *)
C5_CompletedWithLastItem ==
    Toggled =>
        LET s == request.user
            l == request.lesson
        IN /\ (TotalItems(l) = 0) => ~response.lesson_completed
           /\ (TotalItems(l) >= 1 /\ RowsInRange(s, l))
                => (response.lesson_completed <=> EveryItemCompleted(s, l))

\* the toggle of the last remaining item of a lesson with two items or more
C5_Witness ==
    /\ ToggledOn
    /\ wrote
    /\ TotalItems(request.lesson) >= 2
    /\ RowsInRange(request.user, request.lesson)
    /\ response.lesson_completed
    /\ response.credits_awarded_now > 0

(* C6: a toggle by a user who is not a Student, or who has no Enrollment   *)
(* in the lesson's course, is answered 403 and changes no row.             *)
C6_ForbiddenChangesNothing ==
    (/\ request.view = "toggle_lesson_progress"
     /\ request.lesson \in LessonIds
     /\ \/ RoleOf(request.user) # "STUDENT"
        \/ [student |-> request.user, course |-> lessons[request.lesson].course]
             \notin enrollments)
    => (response.status = 403 /\ ~wrote)

\* a student's toggle on a lesson of a course the student is not enrolled in
C6_Witness ==
    /\ request.view = "toggle_lesson_progress"
    /\ RoleOf(request.user) = "STUDENT"
    /\ response.status = 403
    /\ response.error = "Student not enrolled in course"
    /\ itemProgress # {}

\* index values that are no integer, and section values that are no section
NonIntegerInputs == {<<"x">>, None}
NonSectionInputs == {<<"q", "u", "i", "z">>, None}

(* C7: an enrolled student's toggle whose section is neither 'reading' nor *)
(* 'assignment', or whose index is no integer, is answered 400 and changes *)
(* no row.                                                                 *)
C7_MalformedChangesNothing ==
    (/\ request.view = "toggle_lesson_progress"
     /\ request.lesson \in LessonIds
     /\ RoleOf(request.user) = "STUDENT"
     /\ [student |-> request.user, course |-> lessons[request.lesson].course]
          \in enrollments
     /\ \/ request.post.section \in NonSectionInputs
        \/ request.post.index \in NonIntegerInputs)
    => (response.status = 400 /\ ~wrote)

\* a toggle with a non-integer index, rejected while rows are stored
C7_Witness ==
    /\ request.view = "toggle_lesson_progress"
    /\ request.post.index \in NonIntegerInputs
    /\ response.status = 400
    /\ response.error = "index must be an integer"
    /\ itemProgress # {}

(* C8: an enrolled student's toggle whose index is a negative integer is   *)
(* answered 400 (a validation error) and stores no LessonItemProgress row. *)
C8_NegativeIndexRejected ==
    (/\ request.view = "toggle_lesson_progress"
     /\ request.lesson \in LessonIds
     /\ RoleOf(request.user) = "STUDENT"
     /\ [student |-> request.user, course |-> lessons[request.lesson].course]
          \in enrollments
     /\ request.post.section \notin NonSectionInputs
     /\ request.post.index = <<"-", "1">>)
    => (/\ response.status = 400
        /\ ~wrote
        /\ \A r \in itemProgress : r.item_index >= 0)

(* C9: a toggle that finds the lesson complete while its CreditTransaction *)
(* holds credits other than the lesson's credit_points leaves exactly one  *)
(* transaction, with credits = credit_points, and awards nothing.          *)
C9_StaleCreditsRefreshed ==
    (/\ Toggled
     /\ response.lesson_completed
     /\ \E t \in prevTxns : /\ t.student = request.user /\ t.lesson = request.lesson
                            /\ t.credits # lessons[request.lesson].credit_points)
    => (/\ TxnRows(request.user, request.lesson)
             = {[student |-> request.user, lesson |-> request.lesson,
                 credits |-> lessons[request.lesson].credit_points]}
        /\ response.credits_awarded_now = 0)

\* such a toggle, after the instructor changed the lesson's credit_points
C9_Witness ==
    /\ Toggled
    /\ response.lesson_completed
    /\ EveryItemCompleted(request.user, request.lesson)
    /\ RowsInRange(request.user, request.lesson)
    /\ \E t \in prevTxns : /\ t.student = request.user /\ t.lesson = request.lesson
                           /\ t.credits # lessons[request.lesson].credit_points

(* C10: lesson_materials_percent is the completed reading and assignment   *)
(* rows over the non-blank reading and assignment lines, times 100, to two *)
(* decimals, and 0 for a lesson without items; for two reading items and   *)
(* no assignments it is 50.0 after the first item and 100.0, with          *)
(* lesson_completed and credits_awarded_now = credit_points, after the     *)
(* second.                                                                 *)
C10_MaterialsPercent ==
    Toggled =>
        LET s == request.user
            l == request.lesson
            done == Cardinality(CompletedRows(s, l))
            total == TotalItems(l)
            pct == response.lesson_materials_percent
            \* pct is hundredths of a percent: within half a hundredth of done/total*100
            rounded == /\ 2 * (pct * total - done * 10000) <= total
                       /\ 2 * (done * 10000 - pct * total) < total
        IN /\ (total = 0) => (pct = 0)
           /\ (total > 0) => rounded
           /\ (/\ SectionItems(l, SECTION_READING) = 2
               /\ SectionItems(l, SECTION_ASSIGNMENT) = 0
               /\ RowsInRange(s, l))
              => /\ (done = 1) => (pct = 5000 /\ ~response.lesson_completed)
                 /\ (done = 2) => (pct = 10000 /\ response.lesson_completed)
                 /\ (done = 2 /\ ~\E t \in prevTxns : t.student = s /\ t.lesson = l)
                      => (response.credits_awarded_now = lessons[l].credit_points)

\* two of the three items of a lesson are complete: 66.67
C10_Witness ==
    /\ Toggled
    /\ TotalItems(request.lesson) = 3
    /\ Cardinality(CompletedRows(request.user, request.lesson)) = 2
    /\ response.lesson_materials_percent = 6667

-----------------------------------------------------------------------------
(* The reports and the enrolment limit *)

\* pct, in tenths of a percent, is total / 120 * 100 rounded to a tenth and limited
\* to [0, 100]
OverallPercentOf(total, pct) ==
    /\ 0 <= pct
    /\ pct <= 1000
    /\ total > ProgrammeCredits => pct = 1000
    /\ (0 <= total /\ total <= ProgrammeCredits) =>
          /\ 2 * (pct * ProgrammeCredits - total * 1000) <= ProgrammeCredits
          /\ 2 * (total * 1000 - pct * ProgrammeCredits) < ProgrammeCredits

EnrollmentCount(rows, u) == Cardinality({e \in rows : e.student = u})

(***************************************************************************)
(* C11  On both reporting surfaces (student_overall_report and             *)
(* instructor_report_list) a student's overall percent is total credits /  *)
(* 120 * 100 limited to [0, 100]: never below 0 or above 100, and exactly  *)
(* 100 whenever the student's total credits exceed 120.                    *)
(***************************************************************************)
C11_OverallPercentClamped ==
    /\ response.view = "student_overall_report" =>
          OverallPercentOf(response.total_credits, response.overall_progress)
    /\ (response.view = "instructor_report_list" /\ response.status = 200) =>
          \A r \in response.all_students : OverallPercentOf(r.credits, r.progress_percent)

\* the student's own report with more than 120 credits: exactly 100.0
C11_Witness ==
    /\ response.view = "student_overall_report"
    /\ response.total_credits > ProgrammeCredits
    /\ response.overall_progress = 1000

(***************************************************************************)
(* C12  Enrollment cap: after any sequence of course_enroll requests, one  *)
(* after another, a student holds at most 4 enrollments, and a request by  *)
(* a student who already holds 4 creates no Enrollment row and leaves the  *)
(* count at 4.                                                             *)
(***************************************************************************)
C12_EnrollmentCap ==
    /\ [](\A u \in Users : EnrollmentCount(enrollments, u) <= 4)
    /\ [][\A u \in Users :
             (/\ request'.view = "course_enroll"
              /\ request'.user = u
              /\ EnrollmentCount(enrollments, u) >= 4)
             => enrollments' = enrollments]_vars

\* the student at 4 enrollments asked for a fifth course and is not enrolled in it
C12_Witness ==
    /\ request.view = "course_enroll"
    /\ IsStudent(request.user)
    /\ EnrollmentCount(enrollments, request.user) = 4
    /\ ~IsEnrolled(enrollments, request.user, request.course)

(***************************************************************************)
(* C13  When course_enroll is refused because the student is at the cap of *)
(* 4 enrollments, the outcome is informational, not an error: the request  *)
(* ends with the normal redirect and the message is not at error level.    *)
(***************************************************************************)
C13_CapRefusalIsInformational ==
    (/\ request.view = "course_enroll"
     /\ IsStudent(request.user)
     /\ EnrollmentCount(enrollments, request.user) = 4
     /\ ~IsEnrolled(enrollments, request.user, request.course))
    => /\ response.status = 302
       /\ response.message # "error"

-----------------------------------------------------------------------------
(* What the account properties speak of *)

\* the last request was carried out (not refused, not sent to the login page)
Succeeded == response.status = 302 /\ "error" \notin DOMAIN response

HasStudentId(row) == row.student_id \notin {None, <<>>}

\* the numeric suffix of a student id
IdNumber(sid) == DigitsValue(Suffix(sid), 0)

\* the stored users that hold a student id
Holders(rows) == {k \in DOMAIN rows : HasStudentId(rows[k])}

\* user k holds a student id after this step and held none before it
NewlyAssigned(k) ==
    /\ k \in DOMAIN users'
    /\ HasStudentId(users'[k])
    /\ k \in DOMAIN users => ~HasStudentId(users[k])

(***************************************************************************)
(* C14  Role derivation: after every User.save() of a user whose           *)
(* is_superuser or is_staff flag is true the user's role is ADMIN,         *)
(* whatever role was set on the object before the save.                    *)
(***************************************************************************)
C14_StaffIsAdmin ==
    \A k \in DOMAIN users :
        (users[k].is_superuser \/ users[k].is_staff) => users[k].role = "ADMIN"

\* make_instructor set role INSTRUCTOR and is_staff, and the saved row is an ADMIN
C14_Witness ==
    /\ request.view = "make_instructor"
    /\ Succeeded
    /\ users[request.target].is_staff
    /\ ~users[request.target].is_superuser
    /\ users[request.target].role = "ADMIN"

(***************************************************************************)
(* C15  User.save() never assigns a student_id to a user whose             *)
(* is_superuser or is_staff flag is true at the save, even when the role   *)
(* set on the object is STUDENT and student_id is empty: a student_id is   *)
(* newly assigned only in a save whose resulting role is STUDENT.          *)
(***************************************************************************)
C15_NoIdForStaff ==
    [][\A k \in DOMAIN users' :
          NewlyAssigned(k) =>
              /\ users'[k].role = "STUDENT"
              /\ ~users'[k].is_staff
              /\ ~users'[k].is_superuser]_vars

\* make_student on a staff user without a student id: saved as ADMIN, still without
C15_Witness ==
    /\ request.view = "make_student"
    /\ Succeeded
    /\ users[request.target].is_staff
    /\ users[request.target].role = "ADMIN"
    /\ users[request.target].student_id = None

(***************************************************************************)
(* C16  student_id is immutable once assigned: through every save and role *)
(* change (make_student, make_instructor, make_admin_role included) a      *)
(* non-empty student_id never changes and is never cleared.                *)
(***************************************************************************)
C16_StudentIdImmutable ==
    [][\A k \in DOMAIN users \cap DOMAIN users' :
          HasStudentId(users[k]) => users'[k].student_id = users[k].student_id]_vars

\* a student made an admin keeps the id
C16_Witness ==
    /\ request.view = "make_admin_role"
    /\ Succeeded
    /\ users[request.target].role = "ADMIN"
    /\ users[request.target].student_id = StudentId(1)

(***************************************************************************)
(* C17  Student-id stability: a newly created student gets 'stu' followed  *)
(* by a 4-digit zero-padded number that is the highest number among the    *)
(* ids existing at that time plus one, so it is larger than and distinct   *)
(* from every existing id; and after a student whose number is not the     *)
(* highest was deleted, the next student does not get the deleted number.  *)
(***************************************************************************)
C17_StudentIdStability ==
    [][(response'.view = "signup_student" /\ response'.status = 302) =>
          LET sid == users'[response'.user].student_id
              held == {IdNumber(users[k].student_id) : k \in Holders(users)}
              deleted == {d \in issued : \A k \in Holders(users) : users[k].student_id # d}
          IN /\ HasStudentId(users'[response'.user])
             /\ StartsWith(sid, STUDENT_ID_PREFIX)
             /\ Len(Suffix(sid)) = STUDENT_ID_PADDING
             /\ IsDigitText(Suffix(sid))
             /\ \A n \in held : IdNumber(sid) > n
             /\ (held = {} /\ IdNumber(sid) = 1) \/ (IdNumber(sid) - 1 \in held)
             /\ \A k \in Holders(users) : users[k].student_id # sid
             /\ \A d \in deleted :
                   (\E n \in held : IdNumber(d) < n) => sid # d]_vars

\* stu0001 was deleted while stu0002 existed, and the next student is stu0003
C17_Witness ==
    /\ request.view = "signup_student"
    /\ response.status = 302
    /\ users[response.user].student_id = StudentId(3)
    /\ \E k \in DOMAIN users : users[k].student_id = StudentId(2)
    /\ \A k \in DOMAIN users : users[k].student_id # StudentId(1)

(***************************************************************************)
(* C18  A student_id is never reused: a value once assigned to a user is   *)
(* never assigned to a different user afterwards, even if the first        *)
(* user's row has been deleted.                                            *)
(***************************************************************************)
C18_NeverReused ==
    [][\A k \in DOMAIN users' :
          NewlyAssigned(k) => users'[k].student_id \notin issued]_vars

\* C18 as amended: a newly assigned student_id is held by no existing user, and one
\* that was assigned before has a number above every id existing at that time (it
\* comes back only after every user with that or a higher number was deleted).
C18_ReusedOnlyAboveExisting ==
    [][\A k \in DOMAIN users' :
          NewlyAssigned(k) =>
              LET sid == users'[k].student_id
              IN /\ \A j \in Holders(users) : users[j].student_id # sid
                 /\ sid \in issued =>
                       \A j \in Holders(users) :
                           IdNumber(users[j].student_id) < IdNumber(sid)]_vars

\* the only student was deleted and the next one has the same id, stu0001
C18_Witness ==
    /\ request.view = "signup_student"
    /\ response.status = 302
    /\ users[response.user].student_id = StudentId(1)
    /\ response.user \notin DOMAIN InitialUsers

-----------------------------------------------------------------------------
(* The course properties *)

CourseEnrollments(rows, c) == {e \in rows : e.course = c}

(***************************************************************************)
(* C19  Course credit normalization: after every Course.save(), whatever   *)
(* credit_points the caller set, the stored credit_points is 30; every     *)
(* Course row has credit_points = 30 in every reachable state, also after  *)
(* Course.publish, which saves with update_fields.                         *)
(***************************************************************************)
C19_CourseCreditsThirty ==
    \A c \in DOMAIN courses : courses[c].credit_points = 30

\* a course saved with credit_points = 45 on the instance is stored with 30
C19_Witness ==
    /\ request.view = "Course.save"
    /\ request.credit_points = 45
    /\ request.course \in DOMAIN courses
    /\ courses[request.course].credit_points = 30

(***************************************************************************)
(* C20  Cascade on deactivation: once Course.save() has stored status =    *)
(* inactive for a course stored as active before, no Enrollment row of     *)
(* that course remains; a save that does not deactivate the course leaves  *)
(* its enrollments untouched.                                              *)
(***************************************************************************)
C20_CascadeOnDeactivation ==
    [][\A c \in DOMAIN courses \cap DOMAIN courses' :
          LET deactivated == /\ courses[c].status = STATUS_ACTIVE
                             /\ courses'[c].status = STATUS_INACTIVE
              saved == /\ request'.view \in {"course_edit", "Course.publish"}
                       /\ request'.course = c
                       /\ "error" \notin DOMAIN response'
          IN /\ deactivated => CourseEnrollments(enrollments', c) = {}
             /\ (saved /\ ~deactivated) =>
                   CourseEnrollments(enrollments', c) = CourseEnrollments(enrollments, c)]_vars

-----------------------------------------------------------------------------
(* The admin actions *)

(***************************************************************************)
(* C21  The admin action make_instructor marks each selected user as       *)
(* Instructor: after it has run on a user, the user's stored role is       *)
(* INSTRUCTOR and the user belongs to the Instructor group and not to the  *)
(* Student group.                                                          *)
(***************************************************************************)
C21_MakeInstructorRole ==
    (request.view = "make_instructor" /\ Succeeded) =>
        /\ users[request.target].role = "INSTRUCTOR"
        /\ "Instructor" \in users[request.target].groups
        /\ "Student" \notin users[request.target].groups

-----------------------------------------------------------------------------
(* The lesson properties *)

\* the credit points of the course's lessons, added up
CourseLessonCredits(c) == ExistingSum(lessons, c, {})

\* the step handles a lesson form of the course's instructor that would bring the
\* course's sum above the limit
OverLimitSubmission ==
    \/ /\ request'.view = "lesson_create"
       /\ request'.course \in DOMAIN courses
       /\ CourseInstructor(request'.course) = request'.user
       /\ ExistingSum(lessons, request'.course, {}) + request'.form.credit_points
            > CourseCreditLimit
    \/ /\ request'.view = "lesson_edit"
       /\ request'.lesson \in DOMAIN lessons
       /\ CourseInstructor(lessons[request'.lesson].course) = request'.user
       /\ ExistingSum(lessons, lessons[request'.lesson].course, {request'.lesson})
            + request'.form.credit_points > CourseCreditLimit

\* the response reports an error on credit_points
CreditPointsError ==
    /\ response.status = 200
    /\ \/ "errors" \in DOMAIN response /\ "credit_points" \in response.errors
       \/ "error" \in DOMAIN response /\ response.error = "credit_points"

\* C22: after any sequence of lesson creations, edits and deletions the credit points
\* of each course's lessons add up to at most 30, and a submission that would bring
\* the sum above 30 is answered with an error on credit_points and changes no lesson.
C22_LessonCreditLimit ==
    /\ [](\A c \in DOMAIN courses : CourseLessonCredits(c) <= CourseCreditLimit)
    /\ [][OverLimitSubmission => (CreditPointsError' /\ lessons' = lessons)]_vars

\* a course filled to the limit has refused one more lesson
C22_Witness ==
    /\ request.view = "lesson_create"
    /\ CreditPointsError
    /\ CourseLessonCredits(request.course) = CourseCreditLimit
    /\ Cardinality({l \in DOMAIN lessons : lessons[l].course = request.course}) = 2

\* the student has completed the lesson, by the LessonProgress rows
LessonCompleted(lps, s, l) == \E r \in lps : r.student = s /\ r.lesson = l /\ r.completed

\* a CreditTransaction row of the student for the lesson
HasTxn(txns, s, l) == \E r \in txns : r.student = s /\ r.lesson = l

\* C23: LessonProgress.completed becomes true for a student and a lesson, or a
\* CreditTransaction is created for them, only in a state where the student has
\* already completed every prerequisite of the lesson.
C23_PrerequisitesFirst ==
    [][\A s \in Users, l \in DOMAIN lessons :
          (\/ LessonCompleted(lessonProgress', s, l) /\ ~LessonCompleted(lessonProgress, s, l)
           \/ HasTxn(creditTxns', s, l) /\ ~HasTxn(creditTxns, s, l))
            => MissingPrereqs(prerequisites, lessonProgress, s, l) = {}]_vars

-----------------------------------------------------------------------------
(* The properties of concurrent requests *)

\* both concurrent toggle requests were handled to their end
BothFinished == \A p \in ToggleProcs : inflight[p].pc = "done"

\* C24: once two concurrent toggle requests of one student on one lesson have both
\* finished, a CreditTransaction exists for the pair exactly if its LessonProgress row
\* says completed.
C24_AwardMatchesCompletion ==
    BothFinished =>
        (HasTxn(creditTxns, ToggleStudent, ToggleLesson)
           <=> LessonCompleted(lessonProgress, ToggleStudent, ToggleLesson))

\* no two rows of the table share the key
UniqueRows(rows, Key(_)) == \A r1, r2 \in rows : Key(r1) = Key(r2) => r1 = r2
ItemKey(r) == <<r.student, r.lesson, r.section, r.item_index>>
PairKey(r) == <<r.student, r.lesson>>

C26_ConcurrentStudentCreation ==
    /\ \A k1, k2 \in DOMAIN users :
          (k1 # k2 /\ users[k1].student_id # None)
            => users[k1].student_id # users[k2].student_id
    /\ \A p \in SignupProcs :
          (inflight[p].pc = "done" /\ inflight[p].error # "email")
            => inflight[p].status = 302

\* C27: under every interleaving of concurrent course_enroll requests of one student
\* for different courses, the student never has more than 4 Enrollment rows.
C27_ConcurrentEnrollmentCap ==
    \A u \in Users : Cardinality({e \in enrollments : e.student = u}) <= MaxEnrolledCourses

-----------------------------------------------------------------------------
(* The ranges of the progress figures *)

\* C28: after any sequence of toggles with any accepted index and of lesson edits, a
\* toggle answers with counts.completed <= counts.total and with
\* 0 <= lesson_materials_percent <= 100 (the percent is kept in hundredths).
C28_ProgressInRange ==
    (request.view = "toggle_lesson_progress" /\ response.status = 200) =>
        /\ response.counts.completed <= response.counts.total
        /\ 0 <= response.lesson_materials_percent
        /\ response.lesson_materials_percent <= 100 * 100

-----------------------------------------------------------------------------
(* The two reports *)

\* the courses the student is enrolled in
EnrolledCourses(u) == {c \in DOMAIN courses : IsEnrolled(enrollments, u, c)}

\* C29: the total credits student_overall_report shows for a student, the total credits
\* instructor_report_list shows for the same student and the sum of all the student's
\* CreditTransaction rows are equal in every reachable state.
C29_ReportsAgree ==
    /\ (request.view = "student_overall_report" /\ response.status = 200) =>
          response.total_credits = StudentTotalCredits(creditTxns, request.user)
    /\ (request.view = "instructor_report_list" /\ response.status = 200) =>
          \A r \in response.all_students :
             /\ r.credits = StudentTotalCredits(creditTxns, r.id)
             /\ r.credits = SumCourseCredits(EnrolledCourses(r.id), creditTxns, lessons, r.id)

-----------------------------------------------------------------------------
(* The course budget *)

\* C30: after any sequence of lesson creations and edits accepted by LessonForm and of
\* toggle requests, the credits of a student's CreditTransaction rows over the lessons
\* of one course (course_total_credits) add up to at most 30.
C30_CourseCreditsWithinBudget ==
    \A u \in Users, c \in DOMAIN courses :
       CourseTotalCredits(creditTxns, lessons, u, c) <= CourseCreditLimit

====
